---- MODULE Spec2Model ----
(***************************************************************************)
(* A model of the glossary REST service (duyet/glossary-rs).               *)
(*                                                                         *)
(* The database is three tables (glossary, glossary_history, likes).       *)
(* Every SQL statement is one atomic step; a handler that issues several   *)
(* statements is several steps, so that other requests interleave between  *)
(* them exactly as they can between two auto-committed statements.         *)
(* Work a handler does without touching the database (parsing the path,    *)
(* cleaning and validating the body, building the response) is folded into *)
(* the step of the statement that follows or precedes it.                  *)
(*                                                                         *)
(* Strings are sequences of one-character strings.  Option<T> is a         *)
(* sequence of length 0 (None) or 1 (Some).  A UUID is a positive integer; *)
(* Uuid::new_v4() is a counter, so a generated id is always fresh.         *)
(***************************************************************************)
EXTENDS Integers, Sequences, FiniteSets, TLC

\* ------------------------------------------------------------------ bounds

\* Requests the clients issue in one run of the server.
MaxReqs == 2
\* Glossary rows ever inserted (ids 1..MaxEntries); also the range of the
\* well-formed ids a client may put in a path.
MaxEntries == 2
\* The request slots (requests in flight at the same time).
Procs == {"p1", "p2"}

\* --------------------------------------------------------------- Option<T>

None == << >>
Some(x) == << x >>
IsSome(o) == Len(o) = 1
Unwrap(o) == o[1]

\* ------------------------------------------------------- Result<T, Error>

Ok(v) == [ok |-> TRUE, val |-> << v >>, err |-> "none"]
Err(e) == [ok |-> FALSE, val |-> << >>, err |-> e]

\* ----------------------------------------------------------------- strings

\* The characters of the model, with their code points.
CharCode ==
    [c \in {" ", "%", "&", ";", "<", ">", "A", "_", "a", "b", "g", "l", "m",
            "p", "t", "\\", "ß"} |->
        CASE c = " " -> 32 [] c = "%" -> 37 [] c = "&" -> 38 [] c = ";" -> 59
          [] c = "<" -> 60 [] c = ">" -> 62
          [] c = "A" -> 65 [] c = "\\" -> 92 [] c = "_" -> 95 [] c = "a" -> 97
          [] c = "b" -> 98 [] c = "g" -> 103 [] c = "l" -> 108
          [] c = "m" -> 109 [] c = "p" -> 112 [] c = "t" -> 116
          [] c = "ß" -> 223]

\* char::to_lowercase / str::to_lowercase on the model's characters.
LowerChar(c) == IF c = "A" THEN "a" ELSE c

to_lowercase(s) == [i \in 1..Len(s) |-> LowerChar(s[i])]

\* char::to_uppercase(..).to_string(): the uppercase mapping of a character,
\* which is a string ("ß" has the two-letter mapping "SS").
to_uppercase(c) ==
    CASE c = "a" -> << "A" >>
      [] c = "b" -> << "B" >>
      [] c = "g" -> << "G" >>
      [] c = "l" -> << "L" >>
      [] c = "m" -> << "M" >>
      [] c = "p" -> << "P" >>
      [] c = "t" -> << "T" >>
      [] c = "ß" -> << "S", "S" >>
      [] OTHER -> << c >>

IsWhitespace(c) == c = " "

RECURSIVE TrimStart(_)
TrimStart(s) ==
    IF s # << >> /\ IsWhitespace(Head(s)) THEN TrimStart(Tail(s)) ELSE s

RECURSIVE TrimEnd(_)
TrimEnd(s) ==
    IF s # << >> /\ IsWhitespace(s[Len(s)])
    THEN TrimEnd(SubSeq(s, 1, Len(s) - 1))
    ELSE s

\* str::trim
Trim(s) == TrimStart(TrimEnd(s))

\* Lexicographic order by code point (ORDER BY term ASC, bytewise collation).
RECURSIVE StrLeq(_, _)
StrLeq(s, t) ==
    IF s = << >> THEN TRUE
    ELSE IF t = << >> THEN FALSE
    ELSE IF Head(s) # Head(t) THEN CharCode[Head(s)] < CharCode[Head(t)]
    ELSE StrLeq(Tail(s), Tail(t))

\* All orderings of a finite set.
RECURSIVE Perms(_)
Perms(S) ==
    IF S = {} THEN { << >> }
    ELSE UNION { { << x >> \o s : s \in Perms(S \ {x}) } : x \in S }

\* ------------------------------------------------------ input sanitization

Drop(s, n) == SubSeq(s, n + 1, Len(s))

\* s holds a character of the set cs.
HasAny(s, cs) == \E i \in 1..Len(s) : s[i] \in cs

\* The first position of s that holds a character of the set cs, 0 if none.
FirstOf(s, cs) ==
    IF HasAny(s, cs)
    THEN CHOOSE i \in 1..Len(s) : s[i] \in cs /\ \A j \in 1..(i - 1) : s[j] \notin cs
    ELSE 0

\* The letters of the texts of the model.
IsAsciiAlpha(c) == c \in {"A", "a", "b", "g", "l", "m", "p", "t"}

\* The named character references that the letters of the model spell, each
\* with the text it stands for.  Only amp, lt and gt are references without
\* their semicolon as well.  A character that the strings of this module
\* cannot hold is written by its code point: "U+2248" is the one character
\* U+2248.
NamedReferences ==
    { << << "a", "m", "a", "l", "g", ";" >>, "U+2A3F" >>,
      << << "a", "m", "p" >>, "&" >>,
      << << "a", "m", "p", ";" >>, "&" >>,
      << << "a", "p", ";" >>, "U+2248" >>,
      << << "g", "a", "m", "m", "a", ";" >>, "U+03B3" >>,
      << << "g", "a", "p", ";" >>, "U+2A86" >>,
      << << "g", "g", ";" >>, "U+226B" >>,
      << << "g", "g", "g", ";" >>, "U+22D9" >>,
      << << "g", "l", ";" >>, "U+2277" >>,
      << << "g", "l", "a", ";" >>, "U+2AA5" >>,
      << << "g", "t" >>, ">" >>,
      << << "g", "t", ";" >>, ">" >>,
      << << "l", "a", "p", ";" >>, "U+2A85" >>,
      << << "l", "a", "t", ";" >>, "U+2AAB" >>,
      << << "l", "g", ";" >>, "U+2276" >>,
      << << "l", "l", ";" >>, "U+226A" >>,
      << << "l", "t" >>, "<" >>,
      << << "l", "t", ";" >>, "<" >>,
      << << "m", "a", "l", "t", ";" >>, "U+2720" >>,
      << << "m", "a", "p", ";" >>, "U+21A6" >>,
      << << "m", "p", ";" >>, "U+2213" >>,
      << << "p", "m", ";" >>, "±" >> }

\* The HTML tokenizer on character data: text is copied as it is up to its
\* first "&"; the longest named character reference that follows the "&" is
\* the text it stands for; any other "&" is itself.
RECURSIVE DecodeText(_)
DecodeText(s) ==
    IF ~HasAny(s, {"&"}) THEN s
    ELSE LET i == FirstOf(s, {"&"})
             rest == Drop(s, i)
             named == { r \in NamedReferences :
                          /\ Len(r[1]) <= Len(rest)
                          /\ SubSeq(rest, 1, Len(r[1])) = r[1] }
             longest == CHOOSE r \in named :
                           \A q \in named : Len(q[1]) <= Len(r[1])
         IN  SubSeq(s, 1, i - 1) \o
             (IF named = {} THEN << "&" >> \o DecodeText(rest)
              ELSE << longest[2] >> \o
                   DecodeText(Drop(rest, Len(longest[1]))))

\* The HTML serializer on a text node: "&", "<" and ">" are written "&amp;",
\* "&lt;" and "&gt;".
RECURSIVE EscapeText(_)
EscapeText(s) ==
    IF ~HasAny(s, {"&", "<", ">"}) THEN s
    ELSE LET i == FirstOf(s, {"&", "<", ">"})
         IN  SubSeq(s, 1, i - 1) \o
             (CASE s[i] = "&" -> << "&", "a", "m", "p", ";" >>
                [] s[i] = "<" -> << "&", "l", "t", ";" >>
                [] OTHER -> << "&", "g", "t", ";" >>) \o
             EscapeText(Drop(s, i))

\* The last position of the sequence that holds an element of the set xs, 0
\* if there is none.
Topmost(s, xs) ==
    IF \E i \in 1..Len(s) : s[i] \in xs
    THEN CHOOSE i \in 1..Len(s) :
            s[i] \in xs /\ \A j \in (i + 1)..Len(s) : s[j] \notin xs
    ELSE 0

\* The state of the tree builder: the nodes of the tree (nodes; a node is
\* known by its position, the first one is the html element that the
\* fragment is parsed in, and a text node has the empty name), the stack of
\* open elements from the outermost to the innermost (open), and the list
\* of active formatting elements (list).  Of the elements that the letters
\* of the model spell, a, b and tt are formatting elements, p is the one
\* special element, and the fragment has no scope marker but its root.

\* Insert an element named n with the attributes at in the innermost open
\* element, and push it on the stack.
InsertElement(ps, n, at) ==
    [ps EXCEPT
        !.nodes = Append([@ EXCEPT ![ps.open[Len(ps.open)]].kids =
                                       Append(@, Len(ps.nodes) + 1)],
                         [name |-> n, attrs |-> at, kids |-> << >>,
                          data |-> << >>]),
        !.open = Append(@, Len(ps.nodes) + 1)]

\* Reconstruct the active formatting elements: every entry of the list
\* after the last one that is open is opened again, as a new element that
\* takes its place in the list.
RECURSIVE Reconstruct(_)
Reconstruct(ps) ==
    LET k == Topmost(ps.list, { ps.open[i] : i \in 1..Len(ps.open) }) + 1
        entry == ps.nodes[ps.list[k]]
    IN  IF k > Len(ps.list) THEN ps
        ELSE Reconstruct(
                 [InsertElement(ps, entry.name, entry.attrs) EXCEPT
                     !.list[k] = Len(ps.nodes) + 1])

\* An end tag that is none of the others: the innermost open element of
\* that name ends, with what is open inside it, unless a special element is
\* open inside it; then, or when no such element is open, the tag is
\* dropped.
AnyOtherEndTag(ps, n) ==
    LET Named(names) == { x \in 1..Len(ps.nodes) : ps.nodes[x].name \in names }
        i == Topmost(ps.open, Named({ n }))
        special == Topmost(ps.open,
                           Named({ << "p" >>, << "h", "t", "m", "l" >> }))
    IN  IF i = 0 \/ special > i THEN ps
        ELSE [ps EXCEPT !.open = SubSeq(@, 1, i - 1)]

\* The node x leaves the children of its parent, when it has one.
remove_from_parent(nodes, x) ==
    LET IsParent(i) == \E k \in 1..Len(nodes[i].kids) : nodes[i].kids[k] = x
    IN  IF \E i \in 1..Len(nodes) : IsParent(i)
        THEN [nodes EXCEPT ![CHOOSE i \in 1..Len(nodes) : IsParent(i)].kids =
                               SelectSeq(@, LAMBDA y : y # x)]
        ELSE nodes

\* The inner loop of the adoption agency algorithm, from the furthest block
\* fb up the stack to the formatting element fe, and what follows it.  idx
\* is the position in the stack of the node handled before, last is the
\* last node, after is the element behind which the bookmark stands (0: in
\* the place of fe), inner counts the rounds made.
\*   A node that is not in the list of active formatting elements, or that
\* the fourth or a later round meets, leaves the stack (and the list); any
\* other is replaced in the stack and in the list by a new element of its
\* name and attributes, which takes the last node as its child and is the
\* last node from then on.
\*   At the formatting element the loop ends: the last node moves to the
\* element that the formatting element is open in, a new element of the
\* formatting element's name and attributes takes the children of the
\* furthest block and becomes its only child, takes the bookmark's place in
\* the list and the place below the furthest block in the stack, and the
\* formatting element leaves both.
RECURSIVE AdoptionInner(_, _, _, _, _, _, _)
AdoptionInner(ps, fe, fb, idx, last, after, inner) ==
    LET node == ps.open[idx - 1]
        new == Len(ps.nodes) + 1
        li == Topmost(ps.list, { node })
        ai == Topmost(ps.list, { after })
        bj == Topmost(ps.open, { fb })
        Place(nodes) ==
            [nodes |-> Append([nodes EXCEPT ![fb].kids = << new >>],
                              [nodes[fe] EXCEPT !.kids = nodes[fb].kids]),
             open |-> SelectSeq(SubSeq(ps.open, 1, bj) \o << new >> \o
                                Drop(ps.open, bj),
                                LAMBDA x : x # fe),
             list |-> IF after = 0
                      THEN [ps.list EXCEPT ![Topmost(ps.list, { fe })] = new]
                      ELSE SelectSeq(SubSeq(ps.list, 1, ai) \o << new >> \o
                                     Drop(ps.list, ai),
                                     LAMBDA x : x # fe)]
    IN  IF node = fe
        THEN Place([remove_from_parent(ps.nodes, last) EXCEPT
                       ![ps.open[idx - 2]].kids = Append(@, last)])
        ELSE IF li = 0 \/ inner >= 3
        THEN AdoptionInner(
                 [ps EXCEPT !.open = SelectSeq(@, LAMBDA x : x # node),
                            !.list = SelectSeq(@, LAMBDA x : x # node)],
                 fe, fb, idx - 1, last, after, inner + 1)
        ELSE AdoptionInner(
                 [nodes |-> Append(remove_from_parent(ps.nodes, last),
                                   [ps.nodes[node] EXCEPT
                                       !.kids = << last >>]),
                  open |-> [ps.open EXCEPT ![idx - 1] = new],
                  list |-> [ps.list EXCEPT ![li] = new]],
                 fe, fb, idx - 1, new, IF last = fb THEN new ELSE after,
                 inner + 1)

\* The adoption agency algorithm for the end tag of the formatting element
\* named subject; outer counts the rounds of its outer loop, eight at most.
\*   When the innermost open element has that name and is not an active
\* formatting element, it ends and that is all.  Else the formatting
\* element fe is the last active one of that name (at fi in the list, at si
\* in the stack): without one the tag is any other end tag; one that is not
\* open leaves the list; one with no special element open inside it ends
\* with what is open inside it and leaves the list.  Else the furthest block
\* is the outermost special element open inside it (at bi in the stack), the
\* inner loop runs, and the next round follows.
RECURSIVE AdoptionAgency(_, _, _)
AdoptionAgency(ps, subject, outer) ==
    LET cur == ps.open[Len(ps.open)]
        fi == Topmost(ps.list, { x \in 1..Len(ps.nodes) :
                                   ps.nodes[x].name = subject })
        fe == ps.list[fi]
        si == Topmost(ps.open, { fe })
        blocks == { j \in (si + 1)..Len(ps.open) :
                      ps.nodes[ps.open[j]].name = << "p" >> }
        bi == CHOOSE j \in blocks : \A m \in blocks : j <= m
    IN  IF outer = 0 /\ ps.nodes[cur].name = subject
                     /\ \A i \in 1..Len(ps.list) : ps.list[i] # cur
        THEN [ps EXCEPT !.open = SubSeq(@, 1, Len(@) - 1)]
        ELSE IF outer >= 8 THEN ps
        ELSE IF fi = 0 THEN AnyOtherEndTag(ps, subject)
        ELSE IF si = 0
        THEN [ps EXCEPT !.list = SelectSeq(@, LAMBDA x : x # fe)]
        ELSE IF blocks = {}
        THEN [ps EXCEPT !.open = SubSeq(@, 1, si - 1),
                        !.list = SelectSeq(@, LAMBDA x : x # fe)]
        ELSE AdoptionAgency(AdoptionInner(ps, fe, ps.open[bi], bi, ps.open[bi],
                                          0, 0),
                            subject, outer + 1)

\* The tag between "<" and ">".  Its name is its text up to the first blank
\* or "/", in lower case, and what follows the name of a start tag are its
\* attributes, blanks and "/" between them.  It is an end tag when "/" and
\* a letter open it, a start tag when a letter opens it, and nothing
\* otherwise ("</>", and the comment that "</" opens before any other
\* character).
\*   Start tag: <p> closes an open p and opens in the innermost open
\* element.  Any other element opens after the active formatting elements
\* are reconstructed.  <a> with an active a first runs the adoption agency
\* algorithm for a and takes that a from the list and the stack.  A
\* formatting element joins the list of active formatting elements, where
\* the earliest of three entries of its name and attributes leaves.
\*   End tag: </p> without an open p is an empty p; with one, the innermost
\* p ends with what is open inside it.  The end tag of a formatting element
\* runs the adoption agency algorithm.
Token(ps, tag) ==
    LET end == tag[1] = "/"
        text == IF end THEN Drop(tag, 1) ELSE tag
        k == FirstOf(text \o << " " >>, {" ", "/"})
        n == to_lowercase(SubSeq(text, 1, k - 1))
        after == Drop(text, k - 1)
        Between(i) == i < 1 \/ i > Len(after) \/ after[i] \in {" ", "/"}
        at == { to_lowercase(SubSeq(after, r[1], r[2])) :
                  r \in { x \in (1..Len(after)) \X (1..Len(after)) :
                            /\ x[1] <= x[2]
                            /\ Between(x[1] - 1)
                            /\ Between(x[2] + 1)
                            /\ \A m \in x[1]..x[2] : ~Between(m) } }
        Named(name) == { x \in 1..Len(ps.nodes) : ps.nodes[x].name = name }
        p == Topmost(ps.open, Named(<< "p" >>))
        a == Topmost(ps.list, Named(<< "a" >>))
        Open(q, same) ==
            IF n \notin { << "a" >>, << "b" >>, << "t", "t" >> }
            THEN InsertElement(q, n, at)
            ELSE [InsertElement(q, n, at) EXCEPT
                     !.list = Append(IF Cardinality(same) >= 3
                                     THEN SelectSeq(@, LAMBDA x : x #
                                              q.list[CHOOSE i \in same :
                                                 \A j \in same : i <= j])
                                     ELSE @,
                                     Len(q.nodes) + 1)]
        Push(q) == Open(q, { i \in 1..Len(q.list) :
                               /\ q.nodes[q.list[i]].name = n
                               /\ q.nodes[q.list[i]].attrs = at })
    IN  IF ~end
        THEN IF n = << "p" >>
             THEN InsertElement(IF p = 0 THEN ps
                                ELSE [ps EXCEPT !.open = SubSeq(@, 1, p - 1)],
                                n, at)
             ELSE Push(Reconstruct(
                           IF n # << "a" >> \/ a = 0 THEN ps
                           ELSE [AdoptionAgency(ps, n, 0) EXCEPT
                                    !.open = SelectSeq(@, LAMBDA x :
                                                 x # ps.list[a]),
                                    !.list = SelectSeq(@, LAMBDA x :
                                                 x # ps.list[a])]))
        ELSE IF ~(Len(tag) >= 2 /\ IsAsciiAlpha(tag[2])) THEN ps
        ELSE IF n = << "p" >>
        THEN IF p = 0
             THEN [InsertElement(ps, n, {}) EXCEPT !.open = ps.open]
             ELSE [ps EXCEPT !.open = SubSeq(@, 1, p - 1)]
        ELSE IF n \in { << "a" >>, << "b" >>, << "t", "t" >> }
        THEN AdoptionAgency(ps, n, 0)
        ELSE AnyOtherEndTag(ps, n)

\* The sanitizer on the nodes ids of the tree, and the serializer on what
\* it leaves.  The elements of the allow list that the letters of the model
\* spell are a, b, p, tt and map; any other element is dropped and its
\* content kept.  No attribute the model can spell is allowed, and every
\* link gets rel="noopener noreferrer".  The text of a text node is
\* escaped.
RECURSIVE Serialize(_, _)
Serialize(nodes, ids) ==
    LET node == nodes[Head(ids)]
        content == Serialize(nodes, node.kids)
        RelAttr ==
            << " ", "r", "e", "l", "=", "\"", "n", "o", "o", "p", "e", "n",
               "e", "r", " ", "n", "o", "r", "e", "f", "e", "r", "r", "e",
               "r", "\"" >>
    IN  IF ids = << >> THEN << >>
        ELSE (IF node.name = << >> THEN EscapeText(node.data)
              ELSE IF node.name \notin { << "a" >>, << "b" >>, << "p" >>,
                                        << "t", "t" >>, << "m", "a", "p" >> }
              THEN content
              ELSE << "<" >> \o node.name \o
                   (IF node.name = << "a" >> THEN RelAttr ELSE << >>) \o
                   << ">" >> \o content \o << "<", "/" >> \o node.name \o
                   << ">" >>) \o
             Serialize(nodes, Tail(ids))

\* Parse s as the content of an element: the tree builder's state at the
\* end of the input, which ends the parsing.
\*   The tokenizer on markup: "<" followed by a letter, or by "/" and one
\* more character, opens markup that runs to the next ">"; any other "<" is
\* text.  Markup that the input does not end with ">" is dropped.
\*   Character data: the active formatting elements are reconstructed and
\* the text, its character references decoded by the tokenizer, is a text
\* node in the innermost open element.
RECURSIVE ParseFragment(_, _)
ParseFragment(s, ps) ==
    LET Markup(i) ==
            /\ s[i] = "<"
            /\ i < Len(s)
            /\ \/ IsAsciiAlpha(s[i + 1])
               \/ s[i + 1] = "/" /\ i + 1 < Len(s)
        first == IF \E i \in 1..Len(s) : Markup(i)
                 THEN CHOOSE i \in 1..Len(s) :
                         Markup(i) /\ \A j \in 1..(i - 1) : ~Markup(j)
                 ELSE Len(s) + 1
        j == FirstOf(Drop(s, 1), {">"})
        InsertText(data, q) ==
            [InsertElement(q, << >>, {}) EXCEPT
                !.open = q.open,
                !.nodes[Len(q.nodes) + 1].data = data]
    IN  IF s = << >> THEN ps
        ELSE IF first > 1
        THEN ParseFragment(Drop(s, first - 1),
                           InsertText(DecodeText(SubSeq(s, 1, first - 1)),
                                      Reconstruct(ps)))
        ELSE IF j = 0 THEN ps
        ELSE ParseFragment(Drop(s, j + 1), Token(ps, SubSeq(s, 2, j)))

\* ammonia::clean: parse the text as the content of an element, drop what
\* is not allowed, serialize the children of the root.
clean(s) ==
    LET Written(dom) == Serialize(dom.nodes, dom.nodes[1].kids)
    IN  Written(ParseFragment(s, [nodes |-> << [name |-> << "h", "t", "m", "l" >>,
                                               attrs |-> {}, kids |-> << >>,
                                               data |-> << >>] >>,
                                  open |-> << 1 >>,
                                  list |-> << >>]))

\* The text of a JSON string, between its quotes, is a sequence of items:
\* a character written as itself, or an escape sequence.  The escape
\* sequences of the model and the character each stands for: the backslash,
\* which JSON can write in no other way, and \uXXXX spellings of characters
\* that need none (an encoder that keeps to ASCII writes "ß" so, one that
\* guards HTML writes "&" so).
EscapeSequences == { "\\\\", "\\u0026", "\\u00df", "\\u0020" }

Unescape(item) ==
    CASE item = "\\\\" -> "\\"
      [] item = "\\u0026" -> "&"
      [] item = "\\u00df" -> "ß"
      [] item = "\\u0020" -> " "
      [] OTHER -> item

\* The text holds an escape sequence.
NeedsEscape(text) == HasAny(text, EscapeSequences)

\* The JSON deserializer reads a string: it lends a slice of the input when
\* the text holds no escape sequence, and builds the string in a buffer of
\* its own when it had to unescape.
ParseJsonString(text) ==
    [borrowed |-> ~NeedsEscape(text),
     val |-> [i \in 1..Len(text) |-> Unescape(text[i])]]

\* cleanup_string, the deserializer of both body fields.  It asks for a
\* borrowed &str, which the JSON deserializer has only when the text holds
\* no escape sequence: any other field is an error ("invalid type: string,
\* expected a borrowed string"), whether the escape was needed or not.  A
\* borrowed field becomes Some(clean(trim(s))).  An absent field stays None
\* here; the derived deserializer reports it as a missing field.
cleanup_string(field) ==
    IF ~IsSome(field) THEN Ok(None)
    ELSE LET s == ParseJsonString(Unwrap(field))
         IN  IF ~s.borrowed THEN Err("invalid type")
             ELSE Ok(Some(clean(Trim(s.val))))

\* #[validate(...)] on GlossaryRequest, after deserialization.
TermMaxLen == 255

\* ValidateRequest with `required` on both fields and nothing else.
ValidateRequest_RequiredOnly(value) ==
    /\ IsSome(value.term)
    /\ IsSome(value.definition)

ValidateRequest(value) ==
    /\ IsSome(value.term)
    /\ Len(Unwrap(value.term)) >= 1
    /\ Len(Unwrap(value.term)) <= TermMaxLen
    /\ IsSome(value.definition)

\* The Json<GlossaryRequest> extractor, deserialization: the fields as the
\* body has them, the first error ending it; then, a field with a
\* deserialize_with and no default being an error when it is absent, the
\* missing fields.
ExtractJson(body) ==
    LET Fields(term, definition) ==
            IF ~term.ok THEN Err(term.err)
            ELSE IF ~definition.ok THEN Err(definition.err)
            ELSE IF ~IsSome(term.val[1]) \/ ~IsSome(definition.val[1])
            THEN Err("missing field")
            ELSE Ok([term |-> term.val[1], definition |-> definition.val[1]])
    IN  Fields(cleanup_string(body.term), cleanup_string(body.definition))


\* Uuid::from_str on the path segment.  A path is an integer; 1..MaxEntries
\* are the well-formed UUIDs, anything else stands for a string such as
\* "abc1234" that does not parse.
\* Uuid::from_str that takes any string for a UUID.
ParseUuid_Lenient(path) == Some(path)

ParseUuid(path) == IF path \in 1..MaxEntries THEN Some(path) ELSE None

\* ------------------------------------------------------------ error kinds

\* From<DieselError> without the semantic mapping of constraint violations.
FromDieselError_ConstraintsAsDatabaseError(e) ==
    CASE e = "NotFound" -> "NotFound"
      [] e = "UniqueViolation" -> "DatabaseError"
      [] e = "ForeignKeyViolation" -> "DatabaseError"
      [] e = "DatabaseError" -> "DatabaseError"
      [] OTHER -> "InternalError"

\* impl From<DieselError> for ApiError
FromDieselError(e) ==
    CASE e = "NotFound" -> "NotFound"
      [] e = "UniqueViolation" -> "Conflict"
      [] e = "ForeignKeyViolation" -> "Conflict"
      [] e = "DatabaseError" -> "DatabaseError"
      [] OTHER -> "InternalError"

\* status_code answering every error 400, as the legacy ErrorResp does.
status_code_AlwaysBadRequest(kind) == 400

\* ApiError::status_code
status_code(kind) ==
    CASE kind = "NotFound" -> 404
      [] kind = "InvalidInput" -> 400
      [] kind = "Conflict" -> 409
      [] kind = "UnprocessableEntity" -> 422
      [] OTHER -> 500

\* ------------------------------------------------------------ the tables

\* GlossaryRequest::to_glossary with Glossary::new: the fields of the new
\* entry that reach the database (the id Glossary::new draws is discarded by
\* to_glossary_db, which draws its own).  t1 and t2 are the two readings of
\* Utc::now(), for created_at and then for updated_at.
to_glossary_request(value, t1, t2) ==
    IF IsSome(value.term)
    THEN Some([term |-> Unwrap(value.term),
               definition |-> IF IsSome(value.definition)
                              THEN Unwrap(value.definition) ELSE << >>,
               revision |-> 0,
               created_at |-> t1,
               updated_at |-> t2])
    ELSE None

\* Glossary::to_glossary_db: the row to insert, under a fresh id.
to_glossary_db(g, uuid) ==
    [id |-> uuid, term |-> g.term, definition |-> g.definition,
     revision |-> g.revision, created_at |-> g.created_at,
     updated_at |-> g.updated_at]

\* GlossaryDB::to_glossary
to_glossary(row) ==
    [id |-> row.id, term |-> row.term, definition |-> row.definition,
     revision |-> row.revision, likes |-> << >>, likes_count |-> 0,
     who |-> None, created_at |-> row.created_at,
     updated_at |-> row.updated_at]

\* GlossaryDB::to_glossary_with_who
to_glossary_with_who(row, who) == [to_glossary(row) EXCEPT !.who = who]

\* UpdateRow with the revision computed from the request's entry (which
\* Glossary::new makes with revision 0) instead of from the row.
UpdateRow_RevisionFromValue(row, value, t) ==
    [row EXCEPT !.term = value.term,
                !.definition = value.definition,
                !.revision = value.revision + 1,
                !.updated_at = t]

\* UpdateRow writing the whole request entry over the row, created_at too.
UpdateRow_OverwritesCreatedAt(row, value, t) ==
    [row EXCEPT !.term = value.term,
                !.definition = value.definition,
                !.revision = row.revision + 1,
                !.created_at = t,
                !.updated_at = t]

\* The SET clause of update_glossary applied to the row found.
UpdateRow(row, value, t) ==
    [row EXCEPT !.term = value.term,
                !.definition = value.definition,
                !.revision = row.revision + 1,
                !.updated_at = t]

\* update_glossary_stmt as an upsert: a missing row is inserted.
update_glossary_stmt_Upsert(tbl, id, value, t) ==
    IF id \in DOMAIN tbl
    THEN [tbl |-> [tbl EXCEPT ![id] = UpdateRow(tbl[id], value, t)],
          res |-> Ok(UpdateRow(tbl[id], value, t))]
    ELSE [tbl |-> [i \in DOMAIN tbl \cup {id} |->
                     IF i = id THEN to_glossary_db(value, id) ELSE tbl[i]],
          res |-> Ok(to_glossary_db(value, id))]

\* update_glossary's statement, UPDATE ... RETURNING with get_result: the
\* new table and the row returned, or NotFound when no row has the id.
update_glossary_stmt(tbl, id, value, t) ==
    IF id \in DOMAIN tbl
    THEN [tbl |-> [tbl EXCEPT ![id] = UpdateRow(tbl[id], value, t)],
          res |-> Ok(UpdateRow(tbl[id], value, t))]
    ELSE [tbl |-> tbl, res |-> Err("NotFound")]

\* get_glossary: first row with the id, or NotFound.
get_glossary(tbl, id) ==
    IF id \in DOMAIN tbl THEN Ok(tbl[id]) ELSE Err("NotFound")

\* ON DELETE CASCADE of glossary_history.glossary_id and likes.glossary_id.
OnDeleteCascade(rows, id) == { r \in rows : r.glossary_id # id }

\* DELETE FROM glossary WHERE id = ...: the rows left.
DeleteRows(tbl, id) == [i \in DOMAIN tbl \ {id} |-> tbl[i]]

\* delete_glossary that reports NotFound when the statement deleted no row.
delete_glossary_MustExist(tbl, hist, lks, id) ==
    [tbl |-> DeleteRows(tbl, id),
     hist |-> OnDeleteCascade(hist, id),
     lks |-> OnDeleteCascade(lks, id),
     res |-> IF id \in DOMAIN tbl THEN Ok(1) ELSE Err("NotFound")]

\* delete_glossary: the three tables after the statement (the cascade
\* empties the entry's history and likes with it) and the number of glossary
\* rows deleted; deleting no row is not an error.
delete_glossary(tbl, hist, lks, id) ==
    [tbl |-> DeleteRows(tbl, id),
     hist |-> OnDeleteCascade(hist, id),
     lks |-> OnDeleteCascade(lks, id),
     res |-> Ok(Cardinality(DOMAIN tbl \cap {id}))]

\* The foreign key of glossary_history and likes to glossary.
ForeignKeyHolds(tbl, gid) == gid \in DOMAIN tbl

\* create_glossary_history into a table without the foreign key.
create_glossary_history_NoForeignKey(hist, tbl, hid, term, definition, who, revision, gid, t) ==
    hist \cup {[id |-> hid, term |-> term, definition |-> definition,
                revision |-> revision, who |-> who, created_at |-> t,
                glossary_id |-> gid]}

\* create_glossary_history: build the record and insert it; the result of
\* the insert is dropped, so a foreign-key failure leaves the table as it was.
create_glossary_history(hist, tbl, hid, term, definition, who, revision, gid, t) ==
    LET rec == [id |-> hid, term |-> term, definition |-> definition,
                revision |-> revision, who |-> who, created_at |-> t,
                glossary_id |-> gid]
    IN  IF ForeignKeyHolds(tbl, gid) THEN hist \cup {rec} ELSE hist

\* write_result handing a failed history insert on to the handler.
write_result_Propagates(row, inserted) ==
    IF inserted THEN Ok(row) ELSE Err("DatabaseError")

\* create_glossary and update_glossary after create_glossary_history, which
\* returns nothing: Ok(created), Ok(updated), whether the history record was
\* inserted or not.
write_result(row, inserted) == Ok(row)

\* list_glossary_history: the rows of the entry, ORDER BY created_at DESC.
\* Rows with equal created_at come in any order, so this is the set of the
\* lists the statement may return.
list_glossary_history(hist, gid) ==
    LET rows == { h \in hist : h.glossary_id = gid }
    IN  { s \in Perms(rows) :
            \A i \in 1..(Len(s) - 1) : s[i].created_at >= s[i + 1].created_at }

\* histories.last().map(|h| h.who.clone()).unwrap_or_default()
WhoOfLast(histories) ==
    IF histories = << >> THEN None ELSE histories[Len(histories)].who

\* to_glossary_with_who_from_db that does not look at the history.
to_glossary_with_who_from_db_NoWho(row, histories) == to_glossary(row)

\* GlossaryDB::to_glossary_with_who_from_db, given the list the history
\* query returned.
to_glossary_with_who_from_db(row, histories) ==
    to_glossary_with_who(row, WhoOfLast(histories))

\* A timestamp of the model counts microseconds, the unit the database
\* keeps.  The created_at of a Like is written in two fields: created_at, its
\* microseconds, and nanos, what it holds below the microsecond.

\* Like::new and Like::to_like_db: the row keeps the microseconds of the
\* clock reading.
to_like_db(lid, gid, who, t) ==
    [id |-> lid, created_at |-> t, glossary_id |-> gid, who |-> who]

\* LikeDB::to_like: a stored timestamp holds nothing below the microsecond.
to_like(l) ==
    [id |-> l.id, created_at |-> l.created_at, nanos |-> 0, who |-> l.who]

\* create_like on a table that admits one like per entry and user.
create_like_OncePerUser(lks, tbl, lid, gid, who, t, ns) ==
    IF ~ForeignKeyHolds(tbl, gid)
    THEN [lks |-> lks, res |-> Err("ForeignKeyViolation")]
    ELSE IF \E l \in lks : l.glossary_id = gid /\ l.who = who
    THEN [lks |-> lks, res |-> Err("UniqueViolation")]
    ELSE [lks |-> lks \cup {to_like_db(lid, gid, who, t)},
          res |-> Ok([to_like(to_like_db(lid, gid, who, t)) EXCEPT
                         !.nanos = ns])]

\* create_like: Like::new reads the clock (t microseconds and ns below
\* them), the row of the like is inserted, and the answer is the Like as it
\* was built, not the row; the foreign key rejects an unknown entry.
create_like(lks, tbl, lid, gid, who, t, ns) ==
    IF ForeignKeyHolds(tbl, gid)
    THEN [lks |-> lks \cup {to_like_db(lid, gid, who, t)},
          res |-> Ok([to_like(to_like_db(lid, gid, who, t)) EXCEPT
                         !.nanos = ns])]
    ELSE [lks |-> lks, res |-> Err("ForeignKeyViolation")]

\* ------------------------------------------------------------------ search

\* PostgreSQL's s ILIKE p: "%" matches any run of characters, "_" any one
\* character, a backslash makes the next pattern character literal; letters
\* compare without case.  (A pattern ending in a lone backslash is an error;
\* search_glossary's patterns end in "%" and never do.)
RECURSIVE ILike(_, _)
ILike(s, p) ==
    IF p = << >> THEN s = << >>
    ELSE IF Head(p) = "%"
         THEN ILike(s, Tail(p)) \/ (s # << >> /\ ILike(Tail(s), p))
    ELSE IF Head(p) = "\\"
         THEN /\ Len(p) >= 2
              /\ s # << >>
              /\ LowerChar(Head(s)) = LowerChar(p[2])
              /\ ILike(Tail(s), Tail(Tail(p)))
    ELSE IF Head(p) = "_"
         THEN s # << >> /\ ILike(Tail(s), Tail(p))
    ELSE /\ s # << >>
         /\ LowerChar(Head(s)) = LowerChar(Head(p))
         /\ ILike(Tail(s), Tail(p))

\* format!("%{}%", query.to_lowercase())
SearchPattern(query) == << "%" >> \o to_lowercase(query) \o << "%" >>

\* search_glossary: the rows whose term or definition matches, ORDER BY term
\* ASC; rows with equal terms come in any order.
search_glossary(tbl, query) ==
    LET hits == { tbl[i] : i \in { j \in DOMAIN tbl :
                      \/ ILike(tbl[j].term, SearchPattern(query))
                      \/ ILike(tbl[j].definition, SearchPattern(query)) } }
    IN  { s \in Perms(hits) :
            \A i \in 1..(Len(s) - 1) : StrLeq(s[i].term, s[i + 1].term) }

\* ------------------------------------------------------- lists and likes

\* list_glossary: every row, ORDER BY term ASC (rows with equal terms in any
\* order).
list_glossary(tbl) ==
    { s \in Perms({ tbl[i] : i \in DOMAIN tbl }) :
        \A i \in 1..(Len(s) - 1) : StrLeq(s[i].term, s[i + 1].term) }

\* list_likes with ORDER BY created_at ASC.
list_likes_Ascending(lks, gid) ==
    LET rows == { l \in lks : l.glossary_id = gid }
    IN  { [i \in 1..Len(s) |-> [id |-> s[i].id, created_at |-> s[i].created_at,
                                who |-> s[i].who]] :
            s \in { r \in Perms(rows) :
                      \A i \in 1..(Len(r) - 1) :
                         r[i].created_at <= r[i + 1].created_at } }

\* list_likes: the likes of the entry, ORDER BY created_at DESC, as Like
\* values.
list_likes(lks, gid) ==
    LET rows == { l \in lks : l.glossary_id = gid }
    IN  { [i \in 1..Len(s) |-> to_like(s[i])] :
            s \in { r \in Perms(rows) :
                      \A i \in 1..(Len(r) - 1) :
                         r[i].created_at >= r[i + 1].created_at } }

\* Glossary::add_likes
add_likes(g, likes_) ==
    [g EXCEPT !.likes = likes_, !.likes_count = g.likes_count + Len(likes_)]

\* Glossary::add_who
add_who(g, who) == [g EXCEPT !.who = Some(who)]

\* list: the key of the bucket of an entry.
BucketKey(term) == to_uppercase(term[1])

\* list: b.push(...) on the bucket of the key, made empty when it is new.
PushToBucket(groups, key, g) ==
    [k \in DOMAIN groups \cup {key} |->
        IF k = key
        THEN (IF key \in DOMAIN groups THEN Append(groups[key], g) ELSE << g >>)
        ELSE groups[k]]

\* limit.unwrap_or(10)
DefaultLimit == 10

\* list_popular_glossary, first statement: SELECT glossary_id FROM likes
\* GROUP BY glossary_id ORDER BY count(*) DESC LIMIT limit (groups with equal
\* counts in any order).
most_glossary_id_by_count(lks, limit) ==
    LET n == IF IsSome(limit) THEN Unwrap(limit) ELSE DefaultLimit
        count(gid) == Cardinality({ l \in lks : l.glossary_id = gid })
        ranked == { s \in Perms({ l.glossary_id : l \in lks }) :
                      \A i \in 1..(Len(s) - 1) : count(s[i]) >= count(s[i + 1]) }
    IN  { SubSeq(s, 1, IF n < Len(s) THEN n ELSE Len(s)) : s \in ranked }

\* list_popular_glossary, second statement: the rows whose id is in the list,
\* loaded without ORDER BY (so in any order), as lean entries.
load_glossaries_by_id(tbl, ids) ==
    LET rows == { tbl[i] : i \in DOMAIN tbl \cap { ids[k] : k \in 1..Len(ids) } }
    IN  { [i \in 1..Len(s) |-> to_glossary(s[i])] : s \in Perms(rows) }

\* delete_one_like, the like to delete: the one with the id when an id is
\* given, else the first of list_likes; none when there is no such like.
find_one_like(lks, gid, like_id) ==
    IF IsSome(like_id)
    THEN { IF \E l \in lks : l.id = Unwrap(like_id)
           THEN Some(to_like(CHOOSE l \in lks : l.id = Unwrap(like_id)))
           ELSE None }
    ELSE { IF s = << >> THEN None ELSE Some(s[1]) : s \in list_likes(lks, gid) }

\* delete_one_like, DELETE FROM likes WHERE id = ...
delete_like_by_id(lks, lid) == { l \in lks : l.id # lid }

\* ------------------------------------------------------------- the inputs

Str_a == << "a" >>
Str_b == << "b" >>
Str_Ab == << "A", "b" >>

\* Request bodies: {"term": ..., "definition": ...} as sent by the client,
\* each field the text of its JSON string.
Body_a == [term |-> Some(<< " ", "a" >>), definition |-> Some(Str_b)]
Body_Ab == [term |-> Some(Str_Ab), definition |-> Some(<< "a", "&" >>)]
Body_blank == [term |-> Some(<< " " >>), definition |-> Some(Str_a)]
Body_sz == [term |-> Some(<< "ß", "a" >>), definition |-> Some(Str_b)]
Body_noterm == [term |-> None, definition |-> Some(Str_a)]
Body_nodef == [term |-> Some(Str_a), definition |-> None]
Body_blankdef == [term |-> Some(Str_a), definition |-> Some(<< " " >>)]
Body_tag ==
    [term |-> Some(<< "<", "m", ">", " ", "a" >>),
     definition |-> Some(<< "b", " ", "<", "/", "m", ">" >>)]
Body_esc == [term |-> Some(<< "a", "\\\\" >>), definition |-> Some(Str_b)]
\* Body_Ab, Body_sz and Body_a as encoders write them that escape "&", what
\* is not ASCII, and the blank.
Body_Ab_u == [term |-> Some(Str_Ab), definition |-> Some(<< "a", "\\u0026" >>)]
Body_sz_u == [term |-> Some(<< "\\u00df", "a" >>), definition |-> Some(Str_b)]
Body_a_u == [term |-> Some(<< "\\u0020", "a" >>), definition |-> Some(Str_b)]
Body_long ==
    [term |-> Some([i \in 1..(TermMaxLen + 1) |-> "a"]),
     definition |-> Some(Str_a)]

\* What a client sends to Create and Update: a body and the
\* x-authenticated-user-email header (absent, or one of two users).
Writes ==
    { [body |-> Body_a, hdr |-> None],
      [body |-> Body_Ab, hdr |-> Some("alice")],
      [body |-> Body_a, hdr |-> Some("bob")],
      [body |-> Body_blank, hdr |-> Some("alice")],
      [body |-> Body_Ab_u, hdr |-> Some("alice")] }

\* Bodies around the edges of the validation: two that are accepted (one of
\* them with a term that is not ASCII), a blank term, no term, a term one
\* character over the maximum, no definition, a blank definition, fields
\* with markup next to their ends, a term that JSON writes with an escape
\* sequence, and accepted values in a spelling with escape sequences.
EdgeWrites ==
    { [body |-> Body_Ab, hdr |-> Some("alice")],
      [body |-> Body_sz, hdr |-> Some("alice")],
      [body |-> Body_esc, hdr |-> Some("alice")],
      [body |-> Body_Ab_u, hdr |-> Some("alice")],
      [body |-> Body_sz_u, hdr |-> Some("alice")],
      [body |-> Body_a_u, hdr |-> Some("alice")],
      [body |-> Body_blank, hdr |-> Some("alice")],
      [body |-> Body_noterm, hdr |-> Some("alice")],
      [body |-> Body_long, hdr |-> Some("alice")],
      [body |-> Body_nodef, hdr |-> Some("alice")],
      [body |-> Body_blankdef, hdr |-> Some("alice")],
      [body |-> Body_tag, hdr |-> Some("alice")] }

\* The bodies of the model, and what the extractor makes of each.
Bodies == { w.body : w \in Writes \cup EdgeWrites }

Extracted == [body \in Bodies |-> ExtractJson(body)]

\* The extractor as a whole: deserialize, then validate.  The handler runs
\* only when both succeed.
AcceptedBodies ==
    LET Valid(value) == value.ok /\ ValidateRequest(value.val[1])
    IN  { body \in Bodies : Valid(Extracted[body]) }

Accepted(body) == body \in AcceptedBodies

\* The header a client sends to Like.Add.
LikeHeaders == { None, Some("alice") }

\* The {id} path segment: 0 is a string that is no UUID.
Paths == 0..MaxEntries

\* The q parameter of /glossary-search.
Queries == { << "A" >>, << "_" >>, << " " >>, << >> }

\* What the database holds when a run starts from a stored state: the entries
\* that a sequence of Creates wrote, then the likes that a sequence of
\* Like.Adds gave them, in this order.
Seeds ==
    { [writes |-> << [body |-> Body_a, hdr |-> None] >>,
       likes |-> << [gid |-> 1, who |-> Some("alice")] >>],
      [writes |-> << [body |-> Body_a, hdr |-> None],
                     [body |-> Body_Ab, hdr |-> Some("alice")] >>,
       likes |-> << [gid |-> 2, who |-> Some("alice")],
                    [gid |-> 1, who |-> None],
                    [gid |-> 2, who |-> Some("alice")] >>],
      [writes |-> << [body |-> Body_Ab, hdr |-> Some("alice")],
                     [body |-> Body_a, hdr |-> Some("bob")] >>,
       likes |-> << [gid |-> 1, who |-> None],
                    [gid |-> 2, who |-> Some("alice")] >>],
      [writes |-> << [body |-> Body_sz, hdr |-> Some("bob")],
                     [body |-> Body_a, hdr |-> None] >>,
       likes |-> << >>] }

\* The limit parameter of /glossary-popular: absent, or a u8.
Limits == { None, Some(0), Some(1) }

\* ------------------------------------------------------------------ state

VARIABLES
    glossary,          \* table glossary: id -> row
    glossary_history,  \* table glossary_history: set of rows
    likes,             \* table likes: set of rows
    nextGid,           \* next Uuid::new_v4() for a glossary row
    nextHid,           \* next Uuid::new_v4() for a history row
    nextLid,           \* next Uuid::new_v4() for a like
    now,               \* the wall clock: the value Utc::now() gives now
    local,             \* per request slot: the handler's position and locals
    resp,              \* the response a handler has just produced, until it
                       \* is sent (one response is recorded at a time)
    nreq,              \* requests started so far
    nUpdates,          \* history: id -> UPDATE statements that changed the
                       \* row since it was inserted (0 once it is deleted)
    createResp,        \* history: id -> the entry its Create returned, kept
                       \* until an UPDATE or DELETE statement touches the row
    deletedIds,        \* history: ids whose row a DELETE statement removed
    insertedAt         \* history: id -> the clock when the INSERT of its row
                       \* came back (0 while no row was inserted under it)

vars == << glossary, glossary_history, likes, nextGid, nextHid, nextLid, now,
           local, resp, nreq, nUpdates, createResp, deletedIds, insertedAt >>

db == << glossary, glossary_history, likes >>

Idle ==
    [pc |-> "idle", op |-> "none", id |-> 0, who |-> None, rows |-> << >>,
     out |-> << >>, q |-> << >>, after |-> FALSE, lks |-> << >>,
     groups |-> << >>, limit |-> None, since |-> 0]

NoResp ==
    [op |-> "none", id |-> 0, q |-> << >>, status |-> 0, error |-> "none",
     items |-> << >>, count |-> 0, message |-> "none", groups |-> << >>,
     limit |-> None]

\* A 200 response carrying one entry (or one like).
OkItem(x) == [NoResp EXCEPT !.status = 200, !.items = << x >>]

\* ListResp::from: {"results": [...], "count": n}
ListRespFrom(xs) ==
    [NoResp EXCEPT !.status = 200, !.items = xs, !.count = Len(xs)]

\* Message::new: {"message": m}
OkMessage(m) == [NoResp EXCEPT !.status = 200, !.message = m]

\* ApiError as a response: its status code and its kind.
ErrorResponse(kind) ==
    [NoResp EXCEPT !.status = status_code(kind), !.error = kind]

\* pool.get().expect(..) on a failed checkout: the handler panics, and the
\* request gets no response from it (no status, no body).
Panicked == [NoResp EXCEPT !.error = "Panic"]

\* The validating Json extractor rejects the body before the handler runs.
ValidationResponse == [NoResp EXCEPT !.status = 400, !.error = "Validation"]

\* The server started on an empty database.
Init ==
    /\ glossary = << >>
    /\ glossary_history = {}
    /\ likes = {}
    /\ nextGid = 1
    /\ nextHid = 1
    /\ nextLid = 1
    /\ now = 0
    /\ local = [p \in Procs |-> Idle]
    /\ resp = NoResp
    /\ nreq = 0
    /\ nUpdates = [i \in 1..MaxEntries |-> 0]
    /\ createResp = [i \in 1..MaxEntries |-> None]
    /\ deletedIds = {}
    /\ insertedAt = [i \in 1..MaxEntries |-> 0]

\* The row the i-th Create of a seed inserted, both of its readings of time
\* 3(i - 1) and the statement done at 3(i - 1) + 2; its history record is of
\* that time, and its statement done at 3i.
SeedRow(seed, i) ==
    to_glossary_db(
        Unwrap(to_glossary_request(ExtractJson(seed.writes[i].body).val[1],
                                   3 * (i - 1), 3 * (i - 1))), i)

SeedTable(seed) == [i \in 1..Len(seed.writes) |-> SeedRow(seed, i)]

SeedHistory(seed) ==
    UNION { create_glossary_history({}, SeedTable(seed), i,
                SeedRow(seed, i).term, SeedRow(seed, i).definition,
                seed.writes[i].hdr, SeedRow(seed, i).revision, i,
                3 * (i - 1) + 2) : i \in 1..Len(seed.writes) }

\* The like the j-th Like.Add of a seed inserted, after all the Creates.
SeedLikes(seed) ==
    { to_like_db(j, seed.likes[j].gid, seed.likes[j].who,
                 3 * Len(seed.writes) + j) : j \in 1..Len(seed.likes) }

\* The server started on a database that holds what earlier requests wrote:
\* the state after the requests of a seed were served one after the other.
\* They are not counted among the requests of the run.
InitStored ==
    \E seed \in Seeds :
       /\ glossary = SeedTable(seed)
       /\ glossary_history = SeedHistory(seed)
       /\ likes = SeedLikes(seed)
       /\ nextGid = Len(seed.writes) + 1
       /\ nextHid = Len(seed.writes) + 1
       /\ nextLid = Len(seed.likes) + 1
       /\ now = 3 * Len(seed.writes) + Len(seed.likes)
       /\ local = [p \in Procs |-> Idle]
       /\ resp = NoResp
       /\ nreq = 0
       /\ nUpdates = [i \in 1..MaxEntries |-> 0]
       /\ createResp =
             [i \in 1..MaxEntries |->
                IF i <= Len(seed.writes)
                THEN Some(to_glossary_with_who(SeedRow(seed, i),
                                               seed.writes[i].hdr))
                ELSE None]
       /\ deletedIds = {}
       /\ insertedAt =
             [i \in 1..MaxEntries |->
                IF i <= Len(seed.writes) THEN 3 * (i - 1) + 2 ELSE 0]

\* Slot p is at statement pc of its handler.
At(p, pc) ==
    /\ resp = NoResp
    /\ local[p].pc = pc

\* A client sends a request to slot p.
Start(p) ==
    /\ resp = NoResp
    /\ local[p].pc = "idle"
    /\ nreq < MaxReqs
    /\ nreq' = nreq + 1

\* The handler of slot p ends: response r goes out for the request (op, id,
\* q) and the slot is free again.
Finish(p, op, id, q, r) ==
    /\ local' = [local EXCEPT ![p] = Idle]
    /\ resp' = [r EXCEPT !.op = op, !.id = id, !.q = q]

\* The handler of slot p goes on to its next statement with locals l.
Continue(p, l) ==
    /\ local' = [local EXCEPT ![p] = l]
    /\ resp' = NoResp

\* The recorded response is sent to the client.
Send ==
    /\ resp # NoResp
    /\ resp' = NoResp
    /\ UNCHANGED << db, nextGid, nextHid, nextLid, now, local, nreq, nUpdates,
                    createResp, deletedIds, insertedAt >>

\* A statement that stores a timestamp has run: now is the clock when the
\* last one was done, and the clock has moved on when this one is.
Stamped == now' = now + 1

\* The values a statement can store as its timestamp.  The application reads
\* Utc::now() before it sends the statement, at any moment after the
\* statement before it in the same request has come back (when the clock
\* was since) and up to the moment this statement is done; any number of
\* statements of other requests run in between.
Readings(since) == since..(now + 1)

\* The clock when a request that names the entry id can first have been
\* sent: a client learns the id of an entry from a response, after the row
\* was inserted.  (A path of the model that names no row inserted so far
\* stands for a UUID that no entry ever has.)
Known(id) == IF IsSome(id) THEN insertedAt[Unwrap(id)] ELSE 0

\* ---------------------------------------------------------------- handlers

\* POST /glossary with a body the extractor rejects: the handler does not
\* run.
CreateReject(p, w) ==
    /\ ~Accepted(w.body)
    /\ Finish(p, "create", 0, << >>, ValidationResponse)
    /\ UNCHANGED << db, nextGid, nextHid, nextLid, now, nUpdates, createResp,
                    deletedIds, insertedAt >>

\* POST /glossary, first statement: create_glossary makes the entry, inserts
\* the row and gets it back (RETURNING).  Glossary::new reads the clock
\* twice: the clock can move on after the first reading, and again until
\* the statement is done.
CreateStmt(p, w) ==
    /\ Accepted(w.body)
    /\ nextGid <= MaxEntries
    /\ \E t1 \in Readings(0) : \E t2 \in t1..(now + 2) :
         LET value == Extracted[w.body].val[1]
             row == to_glossary_db(Unwrap(to_glossary_request(value, t1, t2)),
                                   nextGid)
         IN  /\ glossary' = [i \in DOMAIN glossary \cup {nextGid} |->
                               IF i = nextGid THEN row ELSE glossary[i]]
             /\ nextGid' = nextGid + 1
             /\ now' = now + 2
             /\ Continue(p, [Idle EXCEPT !.pc = "create_history",
                                         !.op = "create",
                                         !.id = nextGid,
                                         !.who = w.hdr,
                                         !.rows = << row >>,
                                         !.since = now + 2])
    /\ insertedAt' = [insertedAt EXCEPT ![nextGid] = now + 2]
    /\ UNCHANGED << glossary_history, likes, nextHid, nextLid, nUpdates,
                    createResp, deletedIds >>

CreateWith(p, w) == Start(p) /\ (CreateReject(p, w) \/ CreateStmt(p, w))

Create(p) == \E w \in Writes : CreateWith(p, w)

\* POST /glossary, second statement: create_glossary_history for the row
\* created, then the response built from that row and the header.
\* fails: the INSERT fails for a cause of its own (the connection is lost,
\* the statement times out), over and above the foreign key.
CreateHistoryWith(p, fails) ==
    /\ At(p, "create_history")
    /\ \E t \in Readings(local[p].since) :
       LET created == local[p].rows[1]
           entry == to_glossary_with_who(created, local[p].who)
           res == write_result(created, glossary_history' # glossary_history)
       IN  /\ glossary_history' =
                 IF fails THEN glossary_history
                 ELSE create_glossary_history(glossary_history, glossary,
                          nextHid, created.term, created.definition,
                          local[p].who, created.revision, created.id, t)
           /\ nextHid' = nextHid + 1
           /\ Stamped
           /\ Finish(p, "create", created.id, << >>,
                     IF res.ok
                     THEN OkItem(to_glossary_with_who(res.val[1],
                                                      local[p].who))
                     ELSE ErrorResponse(FromDieselError(res.err)))
           /\ createResp' =
                 IF created.id \in DOMAIN glossary /\ nUpdates[created.id] = 0
                 THEN [createResp EXCEPT ![created.id] = Some(entry)]
                 ELSE createResp
    /\ UNCHANGED << glossary, likes, nextGid, nextLid, nreq, nUpdates,
                    deletedIds, insertedAt >>

CreateHistory(p) == CreateHistoryWith(p, FALSE)

CreateHistoryFails(p) == CreateHistoryWith(p, TRUE)

\* GET /glossary/{id}, first statement: parse the id, get_glossary.
GetStmt(p) ==
    /\ \E path \in Paths :
         LET id == ParseUuid(path)
             found == get_glossary(glossary, Unwrap(id))
         IN  IF ~IsSome(id)
             THEN Finish(p, "get", path, << >>, ErrorResponse("InvalidInput"))
             ELSE IF ~found.ok
             THEN Finish(p, "get", path, << >>,
                         ErrorResponse(FromDieselError(found.err)))
             ELSE Continue(p, [Idle EXCEPT !.pc = "get_who",
                                           !.op = "get",
                                           !.id = path,
                                           !.rows = found.val,
                                           !.after = IsSome(createResp[path])])
    /\ UNCHANGED << db, nextGid, nextHid, nextLid, now, nUpdates, createResp,
                    deletedIds, insertedAt >>

Get(p) == Start(p) /\ GetStmt(p)

\* GET /glossary/{id}, second statement (on the second connection):
\* to_glossary_with_who_from_db reads the entry's history.
GetWho(p) ==
    /\ At(p, "get_who")
    /\ \E histories \in list_glossary_history(glossary_history, local[p].id) :
         Finish(p, "get", local[p].id, << >>,
                OkItem(to_glossary_with_who_from_db(local[p].rows[1],
                                                    histories)))
    /\ UNCHANGED << db, nextGid, nextHid, nextLid, now, nreq, nUpdates,
                    createResp, deletedIds, insertedAt >>

\* PUT /glossary/{id} with a body the extractor rejects: the handler does
\* not run.
UpdateReject(p, path, w) ==
    /\ ~Accepted(w.body)
    /\ Finish(p, "update", path, << >>, ValidationResponse)
    /\ UNCHANGED << db, nextGid, nextHid, nextLid, now, nUpdates, createResp,
                    deletedIds, insertedAt >>

\* PUT /glossary/{id}, first statement: the id is parsed, then
\* update_glossary's UPDATE ... RETURNING.
UpdateStmt(p, path, w) ==
    /\ Accepted(w.body)
    /\ LET hdr == w.hdr
           value == Extracted[w.body].val[1]
           id == ParseUuid(path)
       IN  IF ~IsSome(id)
           THEN /\ Finish(p, "update", path, << >>,
                          ErrorResponse("InvalidInput"))
                /\ UNCHANGED << glossary, nUpdates, createResp, now >>
           ELSE \E t \in Readings(Known(id)) :
                LET st == update_glossary_stmt(glossary, Unwrap(id),
                              Unwrap(to_glossary_request(value, now, now)), t)
                IN  IF ~st.res.ok
                    THEN /\ Finish(p, "update", path, << >>,
                                   ErrorResponse(FromDieselError(st.res.err)))
                         /\ glossary' = st.tbl
                         /\ UNCHANGED << nUpdates, createResp, now >>
                    ELSE /\ glossary' = st.tbl
                         /\ nUpdates' = [nUpdates EXCEPT ![path] = @ + 1]
                         /\ createResp' = [createResp EXCEPT ![path] = None]
                         /\ Stamped
                         /\ Continue(p, [Idle EXCEPT !.pc = "update_history",
                                                     !.op = "update",
                                                     !.id = path,
                                                     !.who = hdr,
                                                     !.rows = st.res.val,
                                                     !.since = now + 1])
    /\ UNCHANGED << glossary_history, likes, nextGid, nextHid, nextLid,
                    deletedIds, insertedAt >>

UpdateWith(p, path, w) ==
    Start(p) /\ (UpdateReject(p, path, w) \/ UpdateStmt(p, path, w))

Update(p) == \E path \in Paths, w \in Writes : UpdateWith(p, path, w)

\* PUT /glossary/{id}, second statement: create_glossary_history for the row
\* returned, then the response built from that row and the header.
\* fails: as for Create.
UpdateHistoryWith(p, fails) ==
    /\ At(p, "update_history")
    /\ \E t \in Readings(local[p].since) :
       LET updated == local[p].rows[1]
           res == write_result(updated, glossary_history' # glossary_history)
       IN  /\ glossary_history' =
                 IF fails THEN glossary_history
                 ELSE create_glossary_history(glossary_history, glossary,
                          nextHid, updated.term, updated.definition,
                          local[p].who, updated.revision, updated.id, t)
           /\ nextHid' = nextHid + 1
           /\ Stamped
           /\ Finish(p, "update", updated.id, << >>,
                     IF res.ok
                     THEN OkItem(to_glossary_with_who(res.val[1],
                                                      local[p].who))
                     ELSE ErrorResponse(FromDieselError(res.err)))
    /\ UNCHANGED << glossary, likes, nextGid, nextLid, nreq, nUpdates,
                    createResp, deletedIds, insertedAt >>

UpdateHistory(p) == UpdateHistoryWith(p, FALSE)

UpdateHistoryFails(p) == UpdateHistoryWith(p, TRUE)

\* DELETE /glossary/{id}: parse the id, delete_glossary, confirm.
DeleteStmt(p) ==
    /\ \E path \in Paths :
         LET id == ParseUuid(path)
             st == delete_glossary(glossary, glossary_history, likes,
                                   Unwrap(id))
         IN  IF ~IsSome(id)
             THEN /\ Finish(p, "delete", path, << >>,
                            ErrorResponse("InvalidInput"))
                  /\ UNCHANGED << db, deletedIds, nUpdates, createResp >>
             ELSE /\ glossary' = st.tbl
                  /\ glossary_history' = st.hist
                  /\ likes' = st.lks
                  /\ deletedIds' = deletedIds \cup (DOMAIN glossary \cap {path})
                  /\ nUpdates' = [nUpdates EXCEPT ![path] = 0]
                  /\ createResp' = [createResp EXCEPT ![path] = None]
                  /\ Finish(p, "delete", path, << >>,
                            IF st.res.ok
                            THEN OkMessage("deleted")
                            ELSE ErrorResponse(FromDieselError(st.res.err)))
    /\ UNCHANGED << nextGid, nextHid, nextLid, now, insertedAt >>

Delete(p) == Start(p) /\ DeleteStmt(p)

\* GET /glossary-search?q=, first statement: reject a blank query, then
\* search_glossary.
Search(p) ==
    /\ Start(p)
    /\ \E query \in Queries :
         IF Trim(query) = << >>
         THEN Finish(p, "search", 0, query, ErrorResponse("InvalidInput"))
         ELSE \E results \in search_glossary(glossary, query) :
                Continue(p, [Idle EXCEPT !.pc = "search_who",
                                         !.op = "search",
                                         !.q = query,
                                         !.rows = results])
    /\ UNCHANGED << db, nextGid, nextHid, nextLid, now, nUpdates, createResp,
                    deletedIds, insertedAt >>

\* GET /glossary-search, one more statement (on the second connection):
\* to_glossary_with_who_from_db for the next row of the result.
SearchWho(p) ==
    /\ At(p, "search_who")
    /\ local[p].rows # << >>
    /\ \E histories \in list_glossary_history(glossary_history,
                                              Head(local[p].rows).id) :
         Continue(p, [local[p] EXCEPT
                        !.rows = Tail(local[p].rows),
                        !.out = Append(local[p].out,
                            to_glossary_with_who_from_db(Head(local[p].rows),
                                                         histories))])
    /\ UNCHANGED << db, nextGid, nextHid, nextLid, now, nreq, nUpdates,
                    createResp, deletedIds, insertedAt >>

\* GET /glossary-search, the response: Glossaries::from(&glossaries).
SearchRespond(p) ==
    /\ At(p, "search_who")
    /\ local[p].rows = << >>
    /\ Finish(p, "search", 0, local[p].q, ListRespFrom(local[p].out))
    /\ UNCHANGED << db, nextGid, nextHid, nextLid, now, nreq, nUpdates,
                    createResp, deletedIds, insertedAt >>

\* POST /glossary/{id}/likes: parse the id, create_like (Like::new reads the
\* clock: t, and below the microsecond nothing, 0, or something, 1).
PlusOneStmt(p) ==
    /\ \E path \in Paths, hdr \in LikeHeaders, ns \in {0, 1} :
       \E t \in Readings(Known(ParseUuid(path))) :
         LET id == ParseUuid(path)
             st == create_like(likes, glossary, nextLid, Unwrap(id), hdr, t,
                               ns)
         IN  IF ~IsSome(id)
             THEN /\ Finish(p, "plus_one", path, << >>,
                            ErrorResponse("InvalidInput"))
                  /\ UNCHANGED << likes, nextLid, now >>
             ELSE /\ likes' = st.lks
                  /\ nextLid' = nextLid + 1
                  /\ Stamped
                  /\ Finish(p, "plus_one", path, << >>,
                            IF st.res.ok
                            THEN OkItem(st.res.val[1])
                            ELSE ErrorResponse(FromDieselError(st.res.err)))
    /\ UNCHANGED << glossary, glossary_history, nextGid, nextHid,
                    nUpdates, createResp, deletedIds, insertedAt >>

plus_one(p) == Start(p) /\ PlusOneStmt(p)

\* GET /glossary, first statement: list_glossary.
List(p) ==
    /\ Start(p)
    /\ \E glossaries \in list_glossary(glossary) :
         Continue(p, [Idle EXCEPT !.pc = "list_likes", !.op = "list",
                                  !.rows = glossaries])
    /\ UNCHANGED << db, nextGid, nextHid, nextLid, now, nUpdates, createResp,
                    deletedIds, insertedAt >>

\* GET /glossary, for the next row: list_likes.
ListEntryLikes(p) ==
    /\ At(p, "list_likes")
    /\ local[p].rows # << >>
    /\ \E likes_ \in list_likes(likes, Head(local[p].rows).id) :
         Continue(p, [local[p] EXCEPT !.pc = "list_who", !.lks = likes_])
    /\ UNCHANGED << db, nextGid, nextHid, nextLid, now, nreq, nUpdates,
                    createResp, deletedIds, insertedAt >>

\* GET /glossary, for the same row: list_glossary_history, then the entry is
\* pushed to its bucket with the who of the last history row, "" when there
\* is none or it has none.
ListEntryWho(p) ==
    /\ At(p, "list_who")
    /\ \E histories \in list_glossary_history(glossary_history,
                                              Head(local[p].rows).id) :
         LET a == Head(local[p].rows)
             who == IF histories = << >> THEN ""
                    ELSE IF IsSome(histories[Len(histories)].who)
                    THEN Unwrap(histories[Len(histories)].who)
                    ELSE ""
             g == add_who(add_likes(to_glossary(a), local[p].lks), who)
         IN  Continue(p, [local[p] EXCEPT
                            !.pc = "list_likes",
                            !.rows = Tail(local[p].rows),
                            !.lks = << >>,
                            !.groups = PushToBucket(local[p].groups,
                                                    BucketKey(a.term), g)])
    /\ UNCHANGED << db, nextGid, nextHid, nextLid, now, nreq, nUpdates,
                    createResp, deletedIds, insertedAt >>

\* GET /glossary, the response: the map of the buckets.
ListRespond(p) ==
    /\ At(p, "list_likes")
    /\ local[p].rows = << >>
    /\ Finish(p, "list", 0, << >>, [NoResp EXCEPT !.status = 200,
                             !.groups = local[p].groups])
    /\ UNCHANGED << db, nextGid, nextHid, nextLid, now, nreq, nUpdates,
                    createResp, deletedIds, insertedAt >>

\* GET /glossary-popular, first statement of list_popular_glossary.
ListPopular(p) ==
    /\ Start(p)
    /\ \E limit \in Limits :
         \E ids \in most_glossary_id_by_count(likes, limit) :
            Continue(p, [Idle EXCEPT !.pc = "popular_load",
                                     !.op = "list_popular",
                                     !.limit = limit,
                                     !.rows = ids])
    /\ UNCHANGED << db, nextGid, nextHid, nextLid, now, nUpdates, createResp,
                    deletedIds, insertedAt >>

\* GET /glossary-popular, second statement and the response.
ListPopularLoad(p) ==
    /\ At(p, "popular_load")
    /\ \E glossaries \in load_glossaries_by_id(glossary, local[p].rows) :
         Finish(p, "list_popular", 0, << >>,
                [NoResp EXCEPT !.status = 200, !.items = glossaries,
                               !.limit = local[p].limit])
    /\ UNCHANGED << db, nextGid, nextHid, nextLid, now, nreq, nUpdates,
                    createResp, deletedIds, insertedAt >>

\* GET /glossary/{glossary_id}/likes: parse the id, list_likes.
LikeList(p) ==
    /\ Start(p)
    /\ \E path \in Paths :
         LET id == ParseUuid(path)
         IN  IF ~IsSome(id)
             THEN Finish(p, "like_list", path, << >>,
                         ErrorResponse("InvalidInput"))
             ELSE \E likes_ \in list_likes(likes, Unwrap(id)) :
                    Finish(p, "like_list", path, << >>, ListRespFrom(likes_))
    /\ UNCHANGED << db, nextGid, nextHid, nextLid, now, nUpdates, createResp,
                    deletedIds, insertedAt >>

\* delete_one_like, first statement: look for the like to delete; return
\* when there is none.
DeleteOneLikeFind(p, op, path, gid, like_id) ==
    /\ \E like \in find_one_like(likes, gid, like_id) :
         IF ~IsSome(like)
         THEN Finish(p, op, path, << >>, OkMessage("ok"))
         ELSE Continue(p, [Idle EXCEPT !.pc = "delete_like", !.op = op,
                                       !.id = path, !.rows = like])
    /\ UNCHANGED << db, nextGid, nextHid, nextLid, now, nUpdates, createResp,
                    deletedIds, insertedAt >>

\* DELETE /glossary/{glossary_id}/likes: parse the id, delete_one_like
\* without a like id.
minus_one(p) ==
    /\ Start(p)
    /\ \E path \in Paths :
         LET id == ParseUuid(path)
         IN  IF ~IsSome(id)
             THEN /\ Finish(p, "minus_one", path, << >>,
                            ErrorResponse("InvalidInput"))
                  /\ UNCHANGED << db, nextGid, nextHid, nextLid, now,
                                  nUpdates, createResp, deletedIds,
                                  insertedAt >>
             ELSE DeleteOneLikeFind(p, "minus_one", path, Unwrap(id), None)

\* delete_one_like called with a like id (no route does; it is public).
delete_one_like(p) ==
    /\ Start(p)
    /\ \E gid \in 1..MaxEntries, lid \in 1..nextLid :
         DeleteOneLikeFind(p, "delete_one_like", gid, gid, Some(lid))

\* delete_one_like, second statement: delete the like found, by its id.
DeleteOneLikeDelete(p) ==
    /\ At(p, "delete_like")
    /\ likes' = delete_like_by_id(likes, local[p].rows[1].id)
    /\ Finish(p, local[p].op, local[p].id, << >>, OkMessage("ok"))
    /\ UNCHANGED << glossary, glossary_history, nextGid, nextHid, nextLid,
                    now, nreq, nUpdates, createResp, deletedIds, insertedAt >>

\* A request for a path that main registers no service for, such as
\* GET /glossary-search (the handler search is not among the services of the
\* scope): no handler runs, the router answers 404 with an empty body.
Unrouted(p) ==
    /\ Start(p)
    /\ \E query \in Queries :
         Finish(p, "search", 0, query,
                [NoResp EXCEPT !.status = 404, !.error = "NoRoute"])
    /\ UNCHANGED << db, nextGid, nextHid, nextLid, now, nUpdates, createResp,
                    deletedIds, insertedAt >>

\* The server: the services main registers in the scope /api/v1/, started
\* on an empty database or on one that holds entries and likes.
Next ==
    \/ Send
    \/ \E p \in Procs : List(p)
    \/ \E p \in Procs : ListEntryLikes(p)
    \/ \E p \in Procs : ListEntryWho(p)
    \/ \E p \in Procs : ListRespond(p)
    \/ \E p \in Procs : ListPopular(p)
    \/ \E p \in Procs : ListPopularLoad(p)
    \/ \E p \in Procs : Get(p)
    \/ \E p \in Procs : GetWho(p)
    \/ \E p \in Procs : Update(p)
    \/ \E p \in Procs : UpdateHistory(p)
    \/ \E p \in Procs : Delete(p)
    \/ \E p \in Procs : Create(p)
    \/ \E p \in Procs : CreateHistory(p)
    \/ \E p \in Procs : LikeList(p)
    \/ \E p \in Procs : plus_one(p)
    \/ \E p \in Procs : minus_one(p)
    \/ \E p \in Procs : DeleteOneLikeDelete(p)
    \/ \E p \in Procs : Unrouted(p)

Spec == (Init \/ InitStored) /\ [][Next]_vars

\* The server on a database that holds entries and likes, and
\* delete_one_like called with a like id.
NextStored ==
    \/ Send
    \/ \E p \in Procs : List(p)
    \/ \E p \in Procs : ListEntryLikes(p)
    \/ \E p \in Procs : ListEntryWho(p)
    \/ \E p \in Procs : ListRespond(p)
    \/ \E p \in Procs : ListPopular(p)
    \/ \E p \in Procs : ListPopularLoad(p)
    \/ \E p \in Procs : Get(p)
    \/ \E p \in Procs : GetWho(p)
    \/ \E p \in Procs : Update(p)
    \/ \E p \in Procs : UpdateHistory(p)
    \/ \E p \in Procs : Delete(p)
    \/ \E p \in Procs : Create(p)
    \/ \E p \in Procs : CreateHistory(p)
    \/ \E p \in Procs : LikeList(p)
    \/ \E p \in Procs : plus_one(p)
    \/ \E p \in Procs : minus_one(p)
    \/ \E p \in Procs : delete_one_like(p)
    \/ \E p \in Procs : DeleteOneLikeDelete(p)

SpecStored == InitStored /\ [][NextStored]_vars

\* The handler search (which no route reaches) next to the handlers that
\* write what it reads.
NextSearch ==
    \/ Send
    \/ \E p \in Procs : Create(p)
    \/ \E p \in Procs : CreateHistory(p)
    \/ \E p \in Procs : Update(p)
    \/ \E p \in Procs : UpdateHistory(p)
    \/ \E p \in Procs : Delete(p)
    \/ \E p \in Procs : Search(p)
    \/ \E p \in Procs : SearchWho(p)
    \/ \E p \in Procs : SearchRespond(p)

SpecSearch == (Init \/ InitStored) /\ [][NextSearch]_vars

\* The writes of entries alone, with the bodies at the edges of the validation
\* among their inputs.
CreateEdge(p) == \E w \in EdgeWrites : CreateWith(p, w)

UpdateEdge(p) ==
    \E path \in Paths, w \in EdgeWrites : UpdateWith(p, path, w)

NextValidation ==
    \/ Send
    \/ \E p \in Procs : CreateEdge(p)
    \/ \E p \in Procs : CreateHistory(p)
    \/ \E p \in Procs : UpdateEdge(p)
    \/ \E p \in Procs : UpdateHistory(p)

SpecValidation == (Init \/ InitStored) /\ [][NextValidation]_vars

\* ------------------------------------------------- the pool and the threads

\* The connection main checks out for the migrations: its binding lives
\* until main returns, so it is held as long as the server runs.
MainHeld == 1

\* The connections of the pool: the one main holds and as many as there are
\* request slots, the case in which every request in flight can hold one.
PoolSize == MainHeld + Cardinality(Procs)

\* The connections a handler holds at its position.  A handler checks one
\* out with its pool.get() and holds it, across the await of its web::block,
\* until the closure that owns it has run.  get checks out two: it holds
\* both from its second pool.get() until its first statement is done, and
\* conn2 from there to its end.
Held(l) ==
    CASE l.pc = "idle" -> 0
      [] l.pc = "get_block" -> 2
      [] OTHER -> 1

\* The handler is in a pool.get() while it holds a connection: get, between
\* its two checkouts.
Acquiring(l) == l.pc = "get_conn2"

\* The connections the handlers of the slots S hold together.
RECURSIVE HeldBy(_)
HeldBy(S) ==
    IF S = {} THEN 0
    ELSE LET p == CHOOSE q \in S : TRUE
         IN  Held(local[p]) + HeldBy(S \ {p})

Free == PoolSize - MainHeld - HeldBy(Procs)

\* pool.get() returns a connection.
Checkout == Free >= 1

\* The thread that runs the statement a handler executes next: the closure
\* of a web::block runs on a thread of the blocking pool, what the handler
\* calls outside of one runs on the thread that serves the request.  The
\* first statement of every handler is in a web::block.
StatementThread(pc) ==
    CASE pc \in { "create_history", "update_history", "popular_load",
                  "delete_like" } -> "blocking"
      [] pc \in { "get_who", "search_who", "list_likes", "list_who" } ->
            "handler"
      [] OTHER -> "blocking"

\* A handler has checked its connection out and awaits its web::block: it
\* is at position pc, holding the connection, and nothing is written yet.
Await(p, op, pc) ==
    /\ Continue(p, [Idle EXCEPT !.pc = pc, !.op = op])
    /\ UNCHANGED << db, nextGid, nextHid, nextLid, now, nUpdates, createResp,
                    deletedIds, insertedAt >>

\* POST /glossary with a body the extractor rejects: no handler, no
\* connection.
CreateRejectPooled(p) == Start(p) /\ \E w \in Writes : CreateReject(p, w)

\* POST /glossary: pool.get(), then the await of web::block.
\* (Ids are drawn for at most MaxEntries rows, those of the creates in flight
\* counted in.)
CreateConn(p) ==
    /\ Start(p)
    /\ nextGid + Cardinality({ q \in Procs : local[q].pc = "create_block" })
          <= MaxEntries
    /\ Checkout
    /\ Await(p, "create", "create_block")

\* POST /glossary: the closure runs create_glossary, first statement.
CreateBlock(p) ==
    /\ At(p, "create_block")
    /\ \E w \in Writes : CreateStmt(p, w)
    /\ UNCHANGED nreq

\* DELETE /glossary/{id}: pool.get(), then the await of web::block.
DeleteConn(p) == Start(p) /\ Checkout /\ Await(p, "delete", "delete_block")

\* DELETE /glossary/{id}: the closure runs delete_glossary; the connection
\* goes back to the pool with it.
DeleteBlock(p) ==
    /\ At(p, "delete_block")
    /\ DeleteStmt(p)
    /\ UNCHANGED nreq

\* POST /glossary/{id}/likes: pool.get(), then the await of web::block.
PlusOneConn(p) ==
    Start(p) /\ Checkout /\ Await(p, "plus_one", "plus_one_block")

\* POST /glossary/{id}/likes: the closure runs create_like; the connection
\* goes back to the pool with it.
PlusOneBlock(p) ==
    /\ At(p, "plus_one_block")
    /\ PlusOneStmt(p)
    /\ UNCHANGED nreq

\* GET /glossary/{id}: the first pool.get().
GetConn(p) == Start(p) /\ Checkout /\ Await(p, "get", "get_conn2")

\* GET /glossary/{id}: the second pool.get(), then the await of web::block
\* with both connections held.
GetConn2(p) ==
    /\ At(p, "get_conn2")
    /\ Checkout
    /\ Await(p, "get", "get_block")
    /\ UNCHANGED nreq

\* GET /glossary/{id}: the closure runs get_glossary and conn goes back to
\* the pool with it.
GetBlock(p) ==
    /\ At(p, "get_block")
    /\ GetStmt(p)
    /\ UNCHANGED nreq

\* The first pool.get() of a handler fails (no connection comes free, or
\* none can be opened, before the pool's timeout): expect panics.
PoolGetFails(p) ==
    /\ Start(p)
    /\ \E op \in { "create", "get", "delete", "plus_one" } :
          Finish(p, op, 0, << >>, Panicked)
    /\ UNCHANGED << db, nextGid, nextHid, nextLid, now, nUpdates, createResp,
                    deletedIds, insertedAt >>

\* The second pool.get() of get fails: expect panics, and the connection the
\* handler holds goes back to the pool.
GetConn2Fails(p) ==
    /\ At(p, "get_conn2")
    /\ Finish(p, "get", 0, << >>, Panicked)
    /\ UNCHANGED << db, nextGid, nextHid, nextLid, now, nreq, nUpdates,
                    createResp, deletedIds, insertedAt >>

NextPool ==
    \/ Send
    \/ \E p \in Procs : CreateRejectPooled(p)
    \/ \E p \in Procs : CreateConn(p)
    \/ \E p \in Procs : CreateBlock(p)
    \/ \E p \in Procs : CreateHistory(p)
    \/ \E p \in Procs : GetConn(p)
    \/ \E p \in Procs : GetConn2(p)
    \/ \E p \in Procs : GetConn2Fails(p)
    \/ \E p \in Procs : GetBlock(p)
    \/ \E p \in Procs : GetWho(p)
    \/ \E p \in Procs : DeleteConn(p)
    \/ \E p \in Procs : DeleteBlock(p)
    \/ \E p \in Procs : PlusOneConn(p)
    \/ \E p \in Procs : PlusOneBlock(p)
    \/ \E p \in Procs : PoolGetFails(p)

SpecPool == (Init \/ InitStored) /\ [][NextPool]_vars

\* The writes of entries on a database whose history inserts can fail.
NextFaulty ==
    \/ Send
    \/ \E p \in Procs : Create(p)
    \/ \E p \in Procs : CreateHistory(p)
    \/ \E p \in Procs : CreateHistoryFails(p)
    \/ \E p \in Procs : Update(p)
    \/ \E p \in Procs : UpdateHistory(p)
    \/ \E p \in Procs : UpdateHistoryFails(p)
    \/ \E p \in Procs : Delete(p)

SpecFaulty == (Init \/ InitStored) /\ [][NextFaulty]_vars

\* ============================================================== the claims

\* Slot p starts a request in this step and its handler goes on to pc.
Enters(p, pc) == local[p].pc = "idle" /\ local'[p].pc = pc

\* A request for operation op starts and ends in this step.
AnsweredAtOnce(op) == nreq' = nreq + 1 /\ resp'.op = op

\* Slot p ends its handler in this step, coming from statement pc.
Leaves(p, pc) == local[p].pc = pc /\ local'[p].pc = "idle"

\* ---------------------------------------------------------------------- C1
\* C1: every stored entry's revision equals the number of UPDATE statements
\* that changed its row since Create inserted it (so it is 0 after Create,
\* each successful Update adds exactly 1, nothing decreases it, and
\* concurrent Updates of one entry lose no increment).
C1_RevisionCountsUpdates ==
    \A id \in DOMAIN glossary : glossary[id].revision = nUpdates[id]

\* Two Updates of one entry are in flight together, both past their UPDATE.
C1_Witness ==
    \E id \in DOMAIN glossary :
        /\ glossary[id].revision = 2
        /\ \A p \in Procs :
              local[p].pc = "update_history" /\ local[p].id = id

\* ---------------------------------------------------------------------- C2
\* C2: a step that completes a successful Create or Update appends exactly
\* one history record, carrying the id, term, definition and revision of the
\* entry as written and the acting user; no other step appends one; a stored
\* record stays as it is until its entry is deleted.
C2_OneHistoryPerWrite ==
    [][ LET added == glossary_history' \ glossary_history
            written == \E p \in Procs : \/ Leaves(p, "create_history")
                                        \/ Leaves(p, "update_history")
        IN  /\ written /\ resp'.status = 200 =>
                 \E h \in added :
                    /\ added = {h}
                    /\ h.glossary_id = resp'.items[1].id
                    /\ h.term = resp'.items[1].term
                    /\ h.definition = resp'.items[1].definition
                    /\ h.revision = resp'.items[1].revision
                    /\ h.who = resp'.items[1].who
            /\ ~written => added = {}
            /\ \A h \in glossary_history :
                  h \in glossary_history' \/ h.glossary_id \notin DOMAIN glossary'
      ]_vars

\* ---------------------------------------------------------------------- C3
\* C3: a Get of an entry that starts after the entry's Create has answered,
\* with no Update or Delete of the entry until the Get answers, returns 200
\* with exactly the entry the Create returned (id, term, definition,
\* revision, who, created_at, updated_at), whatever the header was.
C3_GetEqualsCreate ==
    [][ \A p \in Procs :
           /\ Leaves(p, "get_who")
           /\ local[p].after
           /\ IsSome(createResp[local[p].id])
           => /\ resp'.status = 200
              /\ resp'.items = createResp[local[p].id]
      ]_vars

\* A Get has just returned the entry a Create with a header returned.
C3_Witness ==
    /\ resp.op = "get"
    /\ resp.status = 200
    /\ IsSome(createResp[resp.id])
    /\ resp.items = createResp[resp.id]
    /\ IsSome(resp.items[1].who)

\* ---------------------------------------------------------------------- C4
\* The who of the entry's history records with the greatest created_at
\* (several when they tie), and absent when the entry has no history record.
MostRecentAuthor(hist, gid) ==
    LET rows == { h \in hist : h.glossary_id = gid }
    IN  IF rows = {} THEN { None }
        ELSE { h.who : h \in { r \in rows :
                 \A g \in rows : g.created_at <= r.created_at } }

\* C4: the who of an entry returned by a read is the who of the entry's
\* most recent history record at the time the read looks it up: for Get,
\* absent when the entry has no history record or the record has no who; for
\* List, the empty string then.
C4_WhoIsMostRecentAuthor ==
    [][ \A p \in Procs :
           /\ Leaves(p, "get_who") =>
                 resp'.items[1].who \in
                     MostRecentAuthor(glossary_history, local[p].id)
           /\ (local[p].pc = "list_who" /\ local'[p].pc = "list_likes") =>
                 LET a == Head(local[p].rows)
                     bucket == local'[p].groups[BucketKey(a.term)]
                 IN  \E author \in MostRecentAuthor(glossary_history, a.id) :
                        bucket[Len(bucket)].who =
                           Some(IF IsSome(author) THEN Unwrap(author) ELSE "")
      ]_vars

\* ---------------------------------------------------------------------- C5
\* C5: every history record and every like refers to a stored entry, and an
\* entry that was deleted is not stored and has neither history records nor
\* likes, also when the Delete ran between the statements of a Create, an
\* Update or a like of that entry.
C5_NoOrphans ==
    /\ \A h \in glossary_history : h.glossary_id \in DOMAIN glossary
    /\ \A l \in likes : l.glossary_id \in DOMAIN glossary
    /\ \A id \in deletedIds :
          /\ id \notin DOMAIN glossary
          /\ \A h \in glossary_history : h.glossary_id # id
          /\ \A l \in likes : l.glossary_id # id

\* An Update has just run its history insert for an entry that a Delete
\* removed after the Update's UPDATE statement.
C5_Witness ==
    /\ resp.op = "update"
    /\ resp.status = 200
    /\ resp.id \in deletedIds

\* ---------------------------------------------------------------------- C6
\* C6: a deleted id is never stored again, and a Get that starts after the
\* Delete of its id is answered at once with 404 NotFound.
C6_GetAfterDeleteNotFound ==
    [][ \A id \in deletedIds :
           /\ id \notin DOMAIN glossary
           /\ id \notin DOMAIN glossary'
           /\ \A p \in Procs :
                 ~(Enters(p, "get_who") /\ local'[p].id = id)
           /\ AnsweredAtOnce("get") /\ resp'.id = id =>
                 resp'.status = 404 /\ resp'.error = "NotFound"
      ]_vars

\* A Get of a deleted id has just been answered 404.
C6_Witness ==
    /\ resp.op = "get"
    /\ resp.id \in deletedIds
    /\ resp.status = 404
    /\ resp.error = "NotFound"

\* ---------------------------------------------------------------------- C7
\* C7: a Delete with a well-formed id is answered 200 with the message
\* "deleted" whether or not an entry was stored under the id, the id is not
\* stored afterwards, and when no entry was stored under it the entries, the
\* history records and the likes are left as they were.
C7_DeleteIdempotent ==
    [][ AnsweredAtOnce("delete") /\ IsSome(ParseUuid(resp'.id)) =>
           /\ resp'.status = 200
           /\ resp'.message = "deleted"
           /\ resp'.error = "none"
           /\ resp'.items = << >>
           /\ resp'.id \notin DOMAIN glossary'
           /\ resp'.id \notin DOMAIN glossary => UNCHANGED db
      ]_vars

\* A Delete of an id under which no entry was ever stored has just been
\* confirmed, with an entry and its history record stored under another id.
C7_Witness ==
    /\ resp.op = "delete"
    /\ resp.status = 200
    /\ resp.message = "deleted"
    /\ IsSome(ParseUuid(resp.id))
    /\ resp.id \notin deletedIds
    /\ glossary # << >>
    /\ glossary_history # {}

\* ---------------------------------------------------------------------- C8
\* C8: an Update with an accepted body and a well-formed id under which no
\* entry is stored is answered at once with 404 NotFound, and creates no
\* entry and writes no history record.
C8_UpdateMissingNotFound ==
    [][ /\ \A p \in Procs :
              Enters(p, "update_history") => local'[p].id \in DOMAIN glossary
        /\ ( /\ AnsweredAtOnce("update")
             /\ resp'.error # "Validation"
             /\ IsSome(ParseUuid(resp'.id))
             /\ resp'.id \notin DOMAIN glossary )
           => /\ resp'.status = 404
              /\ resp'.error = "NotFound"
              /\ UNCHANGED db
      ]_vars

\* An Update of an id that is not stored has just been answered 404.
C8_Witness ==
    /\ resp.op = "update"
    /\ resp.status = 404
    /\ resp.error = "NotFound"
    /\ resp.id \notin DOMAIN glossary

\* ---------------------------------------------------------------------- C9
\* C9: the UPDATE statement of a successful Update leaves the entry's id and
\* created_at, every other entry and all likes as they were, and the rest of
\* the Update (its history insert) changes no entry and no like.
C9_UpdateFrame ==
    [][ \A p \in Procs :
           /\ Enters(p, "update_history") =>
                 LET id == local'[p].id
                 IN  /\ DOMAIN glossary' = DOMAIN glossary
                     /\ glossary'[id].id = glossary[id].id
                     /\ glossary'[id].created_at = glossary[id].created_at
                     /\ \A other \in DOMAIN glossary \ {id} :
                           glossary'[other] = glossary[other]
                     /\ likes' = likes
           /\ Leaves(p, "update_history") =>
                 glossary' = glossary /\ likes' = likes
      ]_vars

\* An Update has just succeeded, changing its entry's term, while another
\* entry is stored.
C9_Witness ==
    /\ resp.op = "update"
    /\ resp.status = 200
    /\ resp.id \in DOMAIN glossary
    /\ DOMAIN glossary # {resp.id}
    /\ glossary[resp.id].updated_at > glossary[resp.id].created_at
    /\ \E h \in glossary_history :
          h.glossary_id = resp.id /\ h.term # glossary[resp.id].term

\* --------------------------------------------------------------------- C10
\* s contains q as a substring, letters compared without regard to case.
ContainsIgnoreCase(s, q) ==
    \E i \in 0..(Len(s) - Len(q)) :
        \A j \in 1..Len(q) : LowerChar(s[i + j]) = LowerChar(q[j])

\* C10: the rows a Search selects are exactly the stored entries whose term
\* or definition contains the query as a literal substring, without regard
\* to case, each once, in ascending order of term.
C10_SearchLiteralSubstring ==
    [][ \A p \in Procs :
           Enters(p, "search_who") =>
              LET q == local'[p].q
                  rows == local'[p].rows
              IN  /\ { rows[i] : i \in 1..Len(rows) } =
                        { glossary[id] : id \in
                            { i \in DOMAIN glossary :
                                \/ ContainsIgnoreCase(glossary[i].term, q)
                                \/ ContainsIgnoreCase(glossary[i].definition, q) } }
                  /\ Len(rows) = Cardinality({ rows[i] : i \in 1..Len(rows) })
                  /\ \A i \in 1..(Len(rows) - 1) :
                        StrLeq(rows[i].term, rows[i + 1].term)
      ]_vars

\* --------------------------------------------------------------------- C11
\* C11: a Search whose query is empty or has only whitespace is answered at
\* once with 400 InvalidInput and no results, and never reaches the database.
\* (The handler search does so, in SpecSearch; the server does not route the
\* request to it.)
C11_BlankSearchInvalidInput ==
    [][ /\ \A p \in Procs :
              Enters(p, "search_who") =>
                 \E i \in 1..Len(local'[p].q) : local'[p].q[i] # " "
        /\ ( /\ AnsweredAtOnce("search")
             /\ \A i \in 1..Len(resp'.q) : resp'.q[i] = " " )
           => /\ resp'.status = 400
              /\ resp'.error = "InvalidInput"
              /\ resp'.items = << >>
              /\ resp'.count = 0
      ]_vars

\* --------------------------------------------------------------------- C14
\* C14: a Like.Add for a stored entry succeeds and adds exactly one like,
\* under an id no stored like has, to that entry: the entry has one like
\* more than before, also when the same user had liked it already, and the
\* likes of every other entry are as before.
C14_AddOneLike ==
    [][ AnsweredAtOnce("plus_one") /\ resp'.id \in DOMAIN glossary =>
           /\ resp'.status = 200
           /\ \E l \in likes' :
                 /\ l \notin likes
                 /\ likes' = likes \cup {l}
                 /\ l.glossary_id = resp'.id
                 /\ \A k \in likes : k.id # l.id
                 /\ resp'.items[1].id = l.id
           /\ Cardinality({ l \in likes' : l.glossary_id = resp'.id }) =
                 Cardinality({ l \in likes : l.glossary_id = resp'.id }) + 1
           /\ \A other \in DOMAIN glossary \ {resp'.id} :
                 { l \in likes' : l.glossary_id = other } =
                    { l \in likes : l.glossary_id = other }
      ]_vars

\* The same user has just liked an entry a second time.
C14_Witness ==
    /\ resp.op = "plus_one"
    /\ resp.status = 200
    /\ \E l1, l2 \in likes :
          /\ l1.id # l2.id
          /\ l1.glossary_id = resp.id
          /\ l2.glossary_id = resp.id
          /\ IsSome(l1.who)
          /\ l1.who = l2.who

\* --------------------------------------------------------------------- C15
\* C15: a Like.Add for a well-formed id under which no entry is stored is
\* answered 409 Conflict and no like is stored.
C15_LikeMissingConflict ==
    [][ ( /\ AnsweredAtOnce("plus_one")
          /\ IsSome(ParseUuid(resp'.id))
          /\ resp'.id \notin DOMAIN glossary )
        => /\ resp'.status = 409
           /\ resp'.error = "Conflict"
           /\ UNCHANGED db
      ]_vars

\* A Like.Add for an entry that was deleted has just been answered 409.
C15_Witness ==
    /\ resp.op = "plus_one"
    /\ resp.status = 409
    /\ resp.error = "Conflict"
    /\ resp.id \in deletedIds

\* --------------------------------------------------------------------- C20
\* The term of a request body is missing, or is empty or longer than 255
\* characters once trimmed and sanitized.
BadTerm(body) ==
    \/ ~IsSome(body.term)
    \/ Len(clean(Trim(ParseJsonString(Unwrap(body.term)).val))) = 0
    \/ Len(clean(Trim(ParseJsonString(Unwrap(body.term)).val))) > 255

\* The requests of the model that carry such a body.
BadTermWrites == { w \in EdgeWrites : BadTerm(w.body) }

\* C20: a Create or an Update whose body has a missing term, a term that is
\* empty after trimming and sanitizing, or a term longer than 255 characters
\* is answered at once with a 400 error, and no entry and no history record
\* is written or changed.
C20_BadTermRejected ==
    [][ nreq' = nreq + 1 =>
        \A p \in Procs, w \in BadTermWrites :
              /\ CreateWith(p, w) =>
                    /\ resp'.op = "create"
                    /\ resp'.status = 400
                    /\ UNCHANGED db
              /\ \A path \in Paths :
                    UpdateWith(p, path, w) =>
                       /\ resp'.op = "update"
                       /\ resp'.status = 400
                       /\ UNCHANGED db
      ]_vars

\* An Update of a stored entry has just been rejected for its body, and the
\* entry and its history are as its Create left them.
C20_Witness ==
    /\ resp.op = "update"
    /\ resp.status = 400
    /\ resp.error = "Validation"
    /\ resp.id \in DOMAIN glossary
    /\ glossary[resp.id].revision = 0
    /\ Cardinality(glossary_history) = 1
    /\ { w.body : w \in BadTermWrites } = { Body_blank, Body_noterm, Body_long }

\* --------------------------------------------------------------------- C12
\* The number of likes stored for the entry gid.
LikeCount(gid) == Cardinality({ l \in likes : l.glossary_id = gid })

\* C12: in the list a ListPopular returns, each entry has at least as many
\* likes as the entry after it.
C12_PopularRanked ==
    [][ \A p \in Procs :
           Leaves(p, "popular_load") =>
              \A i \in 1..(Len(resp'.items) - 1) :
                 LikeCount(resp'.items[i].id) >= LikeCount(resp'.items[i + 1].id)
      ]_vars

\* --------------------------------------------------------------------- C13
\* The entries with at least one like.
Liked == { gid \in DOMAIN glossary : LikeCount(gid) >= 1 }

\* C13: the list a ListPopular returns holds min(limit, number of entries
\* with a like) entries (limit is 10 when omitted), no entry twice, each with
\* at least one like and none with fewer likes than an entry left out, so it
\* is empty when there is no like.  The entries and likes are those stored at
\* one of the two statements of the request: its first statement selects
\* such entries, and the list returned holds the entries selected or is such
\* a list for what is stored when it is returned.
C13_PopularTopLimit ==
    [][ \A p \in Procs :
           /\ Enters(p, "popular_load") =>
                 LET ids == local'[p].rows
                     sel == { ids[i] : i \in 1..Len(ids) }
                     n == IF IsSome(local'[p].limit)
                          THEN Unwrap(local'[p].limit) ELSE 10
                 IN  /\ Len(ids) = IF n < Cardinality(Liked)
                                   THEN n ELSE Cardinality(Liked)
                     /\ Cardinality(sel) = Len(ids)
                     /\ sel \subseteq Liked
                     /\ \A out \in Liked \ sel, r \in sel :
                           LikeCount(out) <= LikeCount(r)
           /\ Leaves(p, "popular_load") =>
                 LET ids == local[p].rows
                     sel == { ids[i] : i \in 1..Len(ids) }
                     n == IF IsSome(local[p].limit)
                          THEN Unwrap(local[p].limit) ELSE 10
                     items == resp'.items
                     got == { items[i].id : i \in 1..Len(items) }
                 IN  /\ resp'.status = 200
                     /\ Cardinality(got) = Len(items)
                     /\ \/ got = sel
                        \/ /\ Len(items) = IF n < Cardinality(Liked)
                                            THEN n ELSE Cardinality(Liked)
                           /\ got \subseteq Liked
                           /\ \A out \in Liked \ got, r \in got :
                                 LikeCount(out) <= LikeCount(r)
      ]_vars

\* --------------------------------------------------------------------- C16
\* The likes stored for the entry gid.
LikesOf(gid) == { l \in likes : l.glossary_id = gid }

\* C16: a Like.RemoveOne removes at most one like.  Called without a like id
\* for an entry that has likes it removes exactly the most recent of them:
\* its first statement picks a like of the entry that none of the entry's
\* likes was created after, and the call removes the like picked and no
\* other.  Called with a like id it removes exactly the like with that id
\* when it is stored.  When there is no like to remove it changes nothing.
\* In every case it answers "ok" and changes no entry and no history record.
C16_RemoveOneLike ==
    [][ \A p \in Procs :
           /\ (Enters(p, "delete_like") /\ local'[p].op = "minus_one") =>
                 LET gid == Unwrap(ParseUuid(local'[p].id))
                     like == local'[p].rows[1]
                 IN  /\ \E l \in LikesOf(gid) : to_like(l) = like
                     /\ \A l \in LikesOf(gid) : l.created_at <= like.created_at
                     /\ UNCHANGED db
           /\ (AnsweredAtOnce("minus_one") /\ IsSome(ParseUuid(resp'.id))) =>
                 /\ LikesOf(Unwrap(ParseUuid(resp'.id))) = {}
                 /\ resp'.status = 200
                 /\ resp'.message = "ok"
                 /\ UNCHANGED db
           /\ AnsweredAtOnce("delete_one_like") =>
                 /\ resp'.status = 200
                 /\ resp'.message = "ok"
                 /\ UNCHANGED db
           /\ (Leaves(p, "delete_like") /\ local[p].op = "minus_one") =>
                 LET mine == LikesOf(Unwrap(ParseUuid(local[p].id)))
                     lid == local[p].rows[1].id
                 IN  /\ resp'.status = 200
                     /\ resp'.message = "ok"
                     /\ UNCHANGED << glossary, glossary_history >>
                     /\ \/ \E l \in mine : l.id = lid /\ likes' = likes \ {l}
                        \/ mine = {} /\ likes' = likes
           /\ (Leaves(p, "delete_like") /\ local[p].op = "delete_one_like") =>
                 /\ resp'.status = 200
                 /\ resp'.message = "ok"
                 /\ UNCHANGED << glossary, glossary_history >>
                 /\ likes' = { l \in likes : l.id # local[p].rows[1].id }
      ]_vars

\* --------------------------------------------------------------------- C17
\* C17: a Like.List returns exactly the likes of the entry, each once, the
\* most recent first (no like before one with a later created_at), with
\* count their number; for an entry without likes or an id that is not
\* stored it returns the empty list.
C17_LikeListRecentFirst ==
    [][ (AnsweredAtOnce("like_list") /\ IsSome(ParseUuid(resp'.id))) =>
           LET gid == Unwrap(ParseUuid(resp'.id))
               items == resp'.items
           IN  /\ resp'.status = 200
               /\ { items[i] : i \in 1..Len(items) }
                     = { to_like(l) : l \in LikesOf(gid) }
               /\ Len(items) = Cardinality(LikesOf(gid))
               /\ \A i \in 1..(Len(items) - 1) :
                     items[i].created_at >= items[i + 1].created_at
               /\ resp'.count = Cardinality(LikesOf(gid))
               /\ gid \notin DOMAIN glossary =>
                     items = << >> /\ resp'.count = 0
               /\ UNCHANGED db
      ]_vars

\* A Like.List has just returned two or more likes of an entry.
C17_Witness ==
    /\ resp.op = "like_list"
    /\ resp.status = 200
    /\ Len(resp.items) >= 2
    /\ resp.count = Len(resp.items)

\* --------------------------------------------------------------------- C18
\* C18: a List reads every stored entry exactly once, in ascending term
\* order; it puts each entry at the end of the bucket whose key is the
\* uppercased first character of its term, a string of one character, and
\* leaves the other buckets as they are; the response is the buckets built.
C18_ListBuckets ==
    [][ \A p \in Procs :
           /\ Enters(p, "list_likes") =>
                 LET rows == local'[p].rows
                 IN  /\ { rows[i] : i \in 1..Len(rows) }
                           = { glossary[gid] : gid \in DOMAIN glossary }
                     /\ Len(rows) = Cardinality(DOMAIN glossary)
                     /\ \A i \in 1..(Len(rows) - 1) :
                           StrLeq(rows[i].term, rows[i + 1].term)
           /\ (local[p].pc = "list_who" /\ local'[p].pc = "list_likes") =>
                 LET a == Head(local[p].rows)
                     old == local[p].groups
                     new == local'[p].groups
                     key == to_uppercase(a.term[1])
                 IN  /\ Len(key) = 1
                     /\ key \in DOMAIN new
                     /\ DOMAIN new = DOMAIN old \cup { key }
                     /\ new[key][Len(new[key])].id = a.id
                     /\ new[key][Len(new[key])].term = a.term
                     /\ Len(new[key]) =
                           IF key \in DOMAIN old THEN Len(old[key]) + 1 ELSE 1
                     /\ \A k \in DOMAIN old \ { key } : new[k] = old[k]
                     /\ local'[p].rows = Tail(local[p].rows)
           /\ Leaves(p, "list_likes") =>
                 /\ resp'.status = 200
                 /\ resp'.groups = local[p].groups
                 /\ \A k \in DOMAIN resp'.groups :
                       /\ Len(k) = 1
                       /\ \A i \in 1..(Len(resp'.groups[k]) - 1) :
                             StrLeq(resp'.groups[k][i].term,
                                    resp'.groups[k][i + 1].term)
      ]_vars

\* --------------------------------------------------------------------- C19
\* The likes of the entry gid as a response carries them, newest first.
CurrentLikes(gid) == list_likes(likes, gid)

\* C19: the entry a Get returns carries the likes stored for it and their
\* number, and List attaches to each entry the likes stored for it and their
\* number.
C19_LikesInEntries ==
    [][ \A p \in Procs :
           /\ (Leaves(p, "get_who") /\ resp'.status = 200) =>
                 LET g == resp'.items[1]
                 IN  /\ g.likes \in CurrentLikes(g.id)
                     /\ g.likes_count = Cardinality(LikesOf(g.id))
           /\ (local[p].pc = "list_likes" /\ local'[p].pc = "list_who") =>
                 local'[p].lks \in CurrentLikes(Head(local[p].rows).id)
           /\ (local[p].pc = "list_who" /\ local'[p].pc = "list_likes") =>
                 LET a == Head(local[p].rows)
                     key == to_uppercase(a.term[1])
                     g == local'[p].groups[key][Len(local'[p].groups[key])]
                 IN  /\ g.likes = local[p].lks
                     /\ g.likes_count = Len(local[p].lks)
      ]_vars

\* --------------------------------------------------------------------- C21
\* The definition of a request body is missing, or is empty once trimmed and
\* sanitized.
BadDefinition(body) ==
    \/ ~IsSome(body.definition)
    \/ Len(clean(Trim(ParseJsonString(Unwrap(body.definition)).val))) = 0

\* The requests of the model that carry such a body and a term that passes.
BadDefinitionWrites ==
    { w \in EdgeWrites : BadDefinition(w.body) /\ ~BadTerm(w.body) }

\* C21: a Create or an Update whose body has a missing definition, or a
\* definition that is empty after trimming and sanitizing, is answered at
\* once with a 400 error and nothing is written; no stored entry has an
\* empty definition.
C21_BadDefinitionRejected ==
    [][ /\ \A id \in DOMAIN glossary' : glossary'[id].definition # << >>
        /\ nreq' = nreq + 1 =>
           \A p \in Procs, w \in BadDefinitionWrites :
              /\ CreateWith(p, w) =>
                    /\ resp'.op = "create"
                    /\ resp'.status = 400
                    /\ UNCHANGED db
              /\ \A path \in Paths :
                    UpdateWith(p, path, w) =>
                       /\ resp'.op = "update"
                       /\ resp'.status = 400
                       /\ UNCHANGED db
      ]_vars

\* --------------------------------------------------------------------- C24
\* C24: the term and the definition of every stored entry are unchanged by
\* trimming and unchanged by sanitizing them again.
C24_StoredCleanAndTrimmed ==
    \A id \in DOMAIN glossary :
        /\ Trim(glossary[id].term) = glossary[id].term
        /\ clean(glossary[id].term) = glossary[id].term
        /\ Trim(glossary[id].definition) = glossary[id].definition
        /\ clean(glossary[id].definition) = glossary[id].definition

\* --------------------------------------------------------------------- C22
\* The operations whose route takes an entry id.
IdOps == { "get", "update", "delete", "like_list", "plus_one", "minus_one" }

\* The path segment that is not a UUID.
Malformed(path) == path = 0

\* C22: a Get, Update, Delete, Like.List, Like.Add or Like.RemoveOne whose
\* id is not a UUID is answered at once with status 400 and changes no
\* entry, history record or like; the error is InvalidInput (for an Update
\* whose body fails validation too, the validation error, also 400).  No
\* such request gets as far as a statement.
C22_MalformedIdInvalidInput ==
    [][ /\ \A op \in IdOps :
              (AnsweredAtOnce(op) /\ Malformed(resp'.id)) =>
                 /\ resp'.status = 400
                 /\ resp'.error \in
                       IF op = "update" THEN { "InvalidInput", "Validation" }
                       ELSE { "InvalidInput" }
                 /\ UNCHANGED db
        /\ \A p \in Procs :
              (/\ local[p].pc = "idle"
               /\ local'[p].pc # "idle"
               /\ local'[p].op \in IdOps) => ~Malformed(local'[p].id)
      ]_vars

\* An Update with a valid body and a malformed id has just been answered
\* InvalidInput, on a database that holds entries and likes.
C22_Witness ==
    /\ resp.op = "update"
    /\ resp.id = 0
    /\ resp.status = 400
    /\ resp.error = "InvalidInput"
    /\ glossary # << >>
    /\ likes # {}

\* --------------------------------------------------------------------- C25
\* C25: when the last step of a Create or an Update inserts no history
\* record, it still answers 200 with the entry as the first step wrote it,
\* and it leaves the table of entries as it is.
C25_HistoryFailureKeepsWrite ==
    [][ \A p \in Procs :
           (/\ Leaves(p, "create_history") \/ Leaves(p, "update_history")
            /\ glossary_history' = glossary_history) =>
              /\ resp'.status = 200
              /\ resp'.items = << to_glossary_with_who(local[p].rows[1],
                                                       local[p].who) >>
              /\ glossary' = glossary
      ]_vars

\* An Update has just answered 200 with revision 1 of an entry; the entry is
\* stored at that revision and no history record of it was inserted.
C25_Witness ==
    /\ resp.op = "update"
    /\ resp.status = 200
    /\ resp.id \in DOMAIN glossary
    /\ resp.items[1].revision = 1
    /\ glossary[resp.id].revision = 1
    /\ glossary[resp.id].term = resp.items[1].term
    /\ \A h \in glossary_history : h.glossary_id = resp.id => h.revision = 0

\* --------------------------------------------------------------------- C27
\* No request is in flight.
Quiet == \A p \in Procs : local[p].pc = "idle"

\* The history records that the Updates of entry id appended.
UpdateRecords(id) ==
    { r \in glossary_history : r.glossary_id = id /\ r.revision >= 1 }

\* C27: when no request is in flight and the Updates of a stored entry have
\* appended a record each, a record with the latest created_at among them
\* carries the entry's revision, term and definition.
C27_LatestHistoryIsCurrent ==
    Quiet =>
       \A id \in DOMAIN glossary :
          Cardinality(UpdateRecords(id)) = glossary[id].revision
             /\ glossary[id].revision >= 1 =>
             \E h \in UpdateRecords(id) :
                /\ \A r \in UpdateRecords(id) : r.created_at <= h.created_at
                /\ h.revision = glossary[id].revision
                /\ h.term = glossary[id].term
                /\ h.definition = glossary[id].definition

\* --------------------------------------------------------------------- C28
\* C28: two Like.RemoveOne calls without a like id that are in flight
\* together on an entry that holds two likes or more, each about to delete
\* the like it selected, have selected two different likes.
C28_RemoveOneDisjoint ==
    \A p, q \in Procs :
       (/\ p # q
        /\ local[p].id = local[q].id
        /\ Cardinality(LikesOf(local[p].id)) >= 2
        /\ local[p].pc = "delete_like" /\ local[p].op = "minus_one"
        /\ local[q].pc = "delete_like" /\ local[q].op = "minus_one") =>
          local[p].rows[1].id # local[q].rows[1].id

\* --------------------------------------------------------------------- C30
\* C30: the like that the second statement of a Like.RemoveOne(glossary_id,
\* like_id) deletes belongs to the entry glossary_id.
C30_RemoveOneOwnEntry ==
    [][ \A p \in Procs :
           Leaves(p, "delete_like") =>
              \A l \in likes \ likes' : l.glossary_id = local[p].id
      ]_vars

\* --------------------------------------------------------------------- C23
\* The status the error table gives each kind of error.
ErrorTable ==
    [kind \in { "NotFound", "InvalidInput", "UnprocessableEntity", "Conflict",
                "DatabaseError", "InternalError" } |->
        CASE kind = "NotFound" -> 404
          [] kind = "InvalidInput" -> 400
          [] kind = "UnprocessableEntity" -> 422
          [] kind = "Conflict" -> 409
          [] OTHER -> 500]

\* C23: the response to a request that failed is the error body of one of
\* the kinds of the error table, with the status the table gives that kind.
C23_UniformErrors ==
    (resp # NoResp /\ resp.status # 200) =>
       /\ resp.error \in DOMAIN ErrorTable
       /\ resp.status = ErrorTable[resp.error]

\* --------------------------------------------------------------------- C26
\* C26: the statement a handler executes next runs on a thread of the
\* blocking pool, never on the thread that serves the request.
C26_StatementsOffHandlerThread ==
    \A p \in Procs : StatementThread(local[p].pc) = "blocking"

\* --------------------------------------------------------------------- C29
\* C29: no handler is checking a connection out of the pool while it holds
\* one.
C29_NoHoldAndWait ==
    \A p \in Procs : ~(Held(local[p]) >= 1 /\ Acquiring(local[p]))

====
